---- MODULE Spec2Model ----
(***************************************************************************)
(* State-machine model of the session orchestration engine of the voice    *)
(* agent: CustomerSupportAgent (backend/agent/agent.py), its rolling       *)
(* summary memory and its request/response cycle against the language      *)
(* model.                                                                  *)
(*                                                                         *)
(* Texts are sequences of characters, so that str.strip(), truthiness and  *)
(* concatenation are computed and not assumed.  Python's None is the empty *)
(* sequence None and a value v that may be None is kept as Some(v).        *)
(***************************************************************************)
EXTENDS Integers, Sequences, FiniteSets, TLC

(***************************************************************************)
(* Bounds of the model.                                                    *)
(***************************************************************************)
\* process_message invocations of one session
MaxResponds == 18
\* process_message invocations (and greetings) in which the language model
\* deviates from its nominal answer (non-empty text, usage, no tool call, no
\* exception)
MaxIrregular == 1
\* deltas of one astream_chat stream
MaxChunks == 2
\* calls created by POST /call/start
MaxCalls == 2
\* websocket connections opened on /ws/call/{call_id}
MaxConnects == 2
\* audio messages handled on one connection
MaxTurns == 1
\* session aggregates handed to update_stats when folding alone is studied
MaxDeltas == 3

(***************************************************************************)
(* Program constants.                                                      *)
(***************************************************************************)
summary_threshold == 20
keep_recent_messages == 4

None == << >>
Some(v) == << v >>
IsNone(o) == o = << >>
Get(o) == o[1]

\* MessageRole
SYSTEM == "system"
USER == "user"
ASSISTANT == "assistant"

(***************************************************************************)
(* Texts.                                                                  *)
(***************************************************************************)
EmptyText == << >>

RECURSIVE LStrip(_)
LStrip(t) == IF t # << >> /\ Head(t) = " " THEN LStrip(Tail(t)) ELSE t

RECURSIVE RStrip(_)
RStrip(t) ==
    IF t # << >> /\ t[Len(t)] = " " THEN RStrip(SubSeq(t, 1, Len(t) - 1)) ELSE t

\* str.strip()
Strip(t) == RStrip(LStrip(t))

\* bool(text): a str is truthy when it is not empty
Truthy(t) == t # EmptyText

\* `not full_response or full_response.strip() == ""`
IsBlank(t) == ~Truthy(t) \/ Strip(t) = EmptyText

GREETING_FALLBACK ==
    << "Hello! Thank you for contacting customer support. How can I help you today?" >>
FOLLOWUP_FALLBACK ==
    << "I've recorded that information. What else can I help you with?" >>
ERROR_RESPONSE ==
    << "I apologize, but I'm having trouble processing that. Could you please repeat?" >>

\* the text of a nominal answer of the language model
NominalText == << "a" >>
\* what the summarization call can answer with
SummaryTexts == { << " " >>, << "s", " " >> }
NominalSummary == << "s", " " >>
\* a transcribed utterance (never blank: the handler skips blank transcriptions)
UserText == << "u" >>

(***************************************************************************)
(* Gathered data: a dict, kept as a set of <<key, value>> pairs.           *)
(***************************************************************************)
Keys(d) == { kv[1] : kv \in d }
DictUpdate(d, e) == { kv \in d : kv[1] \notin Keys(e) } \cup e

\* CustomerSupportTools.get_gathered_information
GetGatheredInformation(gd) == gd

\* CustomerSupportTools.save_gathered_data: the new gathered data and the result
SaveGatheredData(gd, data_fields) ==
    [ gathered |-> DictUpdate(gd, data_fields), result |-> "saved" ]

(***************************************************************************)
(* Turns.  id is the identity of the ChatMessage object: the position at   *)
(* which it was appended (0 for a message built for one call only).        *)
(***************************************************************************)
ChatMessage(role, content, id) == [ role |-> role, content |-> content, id |-> id ]

\* SYSTEM_PROMPT.format(...): the text depends on the gathered data
SystemPromptText(gd) ==
    IF GetGatheredInformation(gd) # {}
    THEN << "SYSTEM_PROMPT", "gathered" >>
    ELSE << "SYSTEM_PROMPT", "No data gathered yet." >>

\* _update_system_prompt: replace the system turn at index 0, or insert it
UpdateSystemPrompt(h, gd) ==
    IF h # << >> /\ h[1].role = SYSTEM
    THEN [ h EXCEPT ![1] = ChatMessage(SYSTEM, SystemPromptText(gd), 1) ]
    ELSE << ChatMessage(SYSTEM, SystemPromptText(gd), 1) >> \o h

\* seq[-n:] of Python, for n > 0
LastN(s, n) == IF Len(s) <= n THEN s ELSE SubSeq(s, Len(s) - n + 1, Len(s))

\* seq[a:b] of Python for 0 <= a, 0 <= b (0-based, end excluded, clipped)
Slice(s, a, b) ==
    LET e == IF b > Len(s) THEN Len(s) ELSE b
    IN  IF a >= e THEN << >> ELSE SubSeq(s, a + 1, e)

\* bool(self.conversation_summary)
HasSummary(cs) == ~IsNone(cs) /\ Truthy(Get(cs))

SummaryTurn(cs) ==
    ChatMessage(SYSTEM, << "[Previous conversation summary: " >> \o Get(cs) \o << "]" >>, 0)

\* faulty variant: the recent messages are not cut to keep_recent_messages
GetCondensedHistory_NoCut(h, cs) ==
    << h[1] >> \o (IF HasSummary(cs) THEN << SummaryTurn(cs) >> ELSE << >>) \o Tail(h)

\* _get_condensed_history
GetCondensedHistory(h, cs) ==
    LET all_messages_except_system == Tail(h)
    IN  << h[1] >>
        \o (IF HasSummary(cs) THEN << SummaryTurn(cs) >> ELSE << >>)
        \o (IF all_messages_except_system # << >>
            THEN LastN(all_messages_except_system, keep_recent_messages)
            ELSE << >>)

(***************************************************************************)
(* _update_memory, up to its await.                                        *)
(***************************************************************************)
\* len(all_messages_except_system[self.last_summary_point:])
NonSummarizedCount(h, lsp) == Len(Slice(Tail(h), lsp, Len(h)))

\* faulty variant: nothing is kept back, every non-summarized message is summarized
MessagesToSummarizeCount_All(n) == n

\* messages_to_summarize_count
MessagesToSummarizeCount(n) == n - keep_recent_messages

\* faulty variant: the threshold itself does not trigger the summarization
NeedsSummary_Late(h, lsp) ==
    /\ NonSummarizedCount(h, lsp) > summary_threshold
    /\ MessagesToSummarizeCount(NonSummarizedCount(h, lsp)) > 0

\* the guard of the summarization call
NeedsSummary(h, lsp) ==
    /\ NonSummarizedCount(h, lsp) >= summary_threshold
    /\ MessagesToSummarizeCount(NonSummarizedCount(h, lsp)) > 0

\* self.conversation_history[start_idx:end_idx]
MessagesToSummarize(h, lsp) ==
    LET start_idx == 1 + lsp
        end_idx == start_idx + MessagesToSummarizeCount(NonSummarizedCount(h, lsp))
    IN  Slice(h, start_idx, end_idx)

\* faulty variant: the summary point is moved back instead of forward
NewSummaryPoint_Minus(lsp, count) == lsp - count

\* faulty variant: the summary point is not advanced
NewSummaryPoint_Stay(lsp, count) == lsp

\* self.last_summary_point += messages_to_summarize_count
NewSummaryPoint(lsp, count) == lsp + count

\* the messages rendered into the summarization prompt
SummaryPromptMessages(msgs) == SelectSeq(msgs, LAMBDA m : m.role # SYSTEM)

(***************************************************************************)
(* The language model's answers.                                           *)
(***************************************************************************)
ArgsSave == "{\"data_fields\": {\"order_id\": \"AB12CD\"}}"
ArgsEmpty == "{}"
ArgsMalformed == "{\"data_fields\": "

\* json.loads: None when it raises, else the parsed dict
JsonLoads(a) ==
    IF a = ArgsSave THEN Some({ << "data_fields", { << "order_id", "AB12CD" >> } >> })
    ELSE IF a = ArgsEmpty THEN Some({})
    ELSE None

\* dict.get(key, default)
DictGet(d, k, default) ==
    IF k \in Keys(d) THEN (CHOOSE kv \in d : kv[1] = k)[2] ELSE default

ToolCall(name, arguments) ==
    [ type |-> "function", name |-> name, arguments |-> arguments ]

SaveCall == ToolCall("save_gathered_data", ArgsSave)
MalformedCall == ToolCall("save_gathered_data", ArgsMalformed)
LogCall == ToolCall("log_information", ArgsEmpty)

Usage == [ prompt_tokens |-> 3, completion_tokens |-> 2, total_tokens |-> 5 ]

\* what achat returns: message.content, message.tool_calls, raw.usage
ChatResponse(content, calls, usage) ==
    [ content |-> content, tool_calls |-> calls, usage |-> usage ]

NominalResponse == ChatResponse(NominalText, << >>, Some(Usage))

\* what the primary achat can return (an exception is a separate outcome):
\* text alone, empty or blank text, text with a tool call, a tool call with
\* empty or blank text, a tool call followed by one whose arguments are not
\* JSON, and a call of a tool of the declared schema
PrimaryResponses ==
    { NominalResponse,
      ChatResponse(EmptyText, << >>, Some(Usage)),
      ChatResponse(<< " " >>, << >>, None),
      ChatResponse(NominalText, << SaveCall >>, Some(Usage)),
      ChatResponse(EmptyText, << SaveCall >>, Some(Usage)),
      ChatResponse(<< " " >>, << SaveCall >>, None),
      ChatResponse(EmptyText, << SaveCall, MalformedCall >>, Some(Usage)),
      ChatResponse(EmptyText, << LogCall >>, Some(Usage)) }

\* what the follow-up achat can return
FollowupResponses ==
    { NominalResponse,
      ChatResponse(EmptyText, << >>, None),
      ChatResponse(<< " " >>, << SaveCall >>, Some(Usage)) }

NominalChat(r) == r = NominalResponse

\* one item yielded by process_message: (text, first_chunk_latency_ms,
\* total_latency_ms, usage); a latency is kept as "is not None"
Yield(text, first, total, usage) ==
    [ text |-> text, first_chunk_latency_ms |-> first,
      total_latency_ms |-> total, usage |-> usage ]

\* one call to the language model: what it was given and how it ended
\* ("pending", "returned" or "raised")
LLMCall(kind, messages, tools) ==
    [ kind |-> kind, messages |-> messages, tools |-> tools, outcome |-> "pending" ]

\* the last call of the log ends
Ended(calls, outcome) == [ calls EXCEPT ![Len(calls)].outcome = outcome ]

\* the deltas an astream_chat stream can carry
Deltas == { << >>, << "a" >> }

VARIABLES
    conversation_history,   \* self.conversation_history
    conversation_summary,   \* self.conversation_summary (None or Some(text))
    last_summary_point,     \* self.last_summary_point
    tool_calls,             \* self.tool_calls
    gathered_data,          \* self.tools: the gathered data
    pc,                     \* where process_message is suspended
    messages_to_summarize,  \* local of _update_memory, held across its await
    messages_to_summarize_count,    \* local of _update_memory
    history_to_use,         \* local of process_message
    response,               \* local: the primary response (None or Some)
    usage_data,             \* local (None or Some)
    tool_calls_made,        \* local: None while unbound, else Some(list)
    full_response,          \* local
    chunk_count,            \* local of the streaming fallback
    response_stream,        \* local: the deltas the stream has delivered so far
    yielded,                \* what the invocation has yielded so far
    llm_calls,              \* the calls the language model got in this invocation
    responds,               \* process_message invocations so far
    irregular,              \* invocations in which the model deviated
    deviated                \* the model deviated in this invocation

(***************************************************************************)
(* The call service: the JSON database (models/database.py) and the        *)
(* websocket handler (routers/chat.py).  Costs are kept in millionths of a *)
(* dollar, so that the default prices give whole numbers.                  *)
(***************************************************************************)
PENDING == "pending"
COMPLETED == "completed"
ERROR == "error"

\* Settings written by Database._initialize_files
price_per_million_input_tokens == 3
price_per_million_output_tokens == 15
\* 0.03 dollars for 5 seconds
price_per_5s_transcription == 30000
\* 0.30 dollars for 10000 characters
price_per_10k_tts_chars == 300000
estimated_token_length == 4
\* the price of a character of a generated greeting: 0.00003 dollars
GREETING_TTS_PRICE == 30
MODEL_NAME == "openai/gpt-oss-120b"

\* UsageStats()
UsageStats ==
    [ input_tokens |-> 0, output_tokens |-> 0, input_characters |-> 0,
      output_characters |-> 0, transcription_seconds |-> 0,
      tts_characters |-> 0, llm_calls |-> 0, llm_latency_ms |-> 0 ]

\* CostStats()
CostStats ==
    [ llm_input_cost |-> 0, llm_output_cost |-> 0, transcription_cost |-> 0,
      tts_cost |-> 0, total_cost |-> 0 ]

\* SystemStats(); model_latencies is a dict, kept as a set of <<key, value>>
SystemStats ==
    [ total_calls |-> 0, completed_calls |-> 0, pending_calls |-> 0,
      error_calls |-> 0, total_usage |-> UsageStats, total_costs |-> CostStats,
      model_latencies |-> {} ]

\* ModelLatencyStats(model_name=...); the average is kept in whole
\* milliseconds per 100 tokens
ModelLatencyStats(model_name) ==
    [ model_name |-> model_name, total_calls |-> 0, total_tokens |-> 0,
      total_latency_ms |-> 0, avg_latency_per_100_tokens |-> 0 ]

\* (total_latency_ms / total_tokens) * 100
AvgLatencyPer100Tokens(total_latency_ms, total_tokens) ==
    (total_latency_ms * 100) \div total_tokens

\* the default title of a call
NEW_CALL_TITLE == << "New Call" >>

\* Call(id=..., status=PENDING, model_name=...); end_time is "is not None"
Call(id, model_name) ==
    [ id |-> id, title |-> NEW_CALL_TITLE, status |-> PENDING, end_time |-> FALSE,
      messages |-> << >>,
      summary |-> None, usage_stats |-> UsageStats, cost_stats |-> CostStats,
      error_message |-> None, model_name |-> model_name ]

\* Message(role=..., content=...)
Message(role, content) == [ role |-> role, content |-> content ]

\* the sum of the four cost components
CostSum(c) ==
    c.llm_input_cost + c.llm_output_cost + c.transcription_cost + c.tts_cost

\* the default settings: the ids of the three pieces of information to gather
Settings == [ information_to_gather |-> << "i1", "i2", "i3" >> ]

\* the locals of one run of websocket_call_endpoint and of the database
\* method it is in: update_call_status (ucs_call, old_status),
\* add_message_to_call (amc_call), add/remove_information_to_gather (settings)
Handler ==
    [ pc |-> "none", call_id |-> 0, call |-> None,
      websocket_disconnected |-> FALSE, greeting_data |-> FALSE,
      greeting |-> EmptyText,
      transcription |-> EmptyText, audio_seconds |-> 0, turns |-> 0,
      status |-> PENDING, error_message |-> None,
      ucs_call |-> None, old_status |-> PENDING,
      amc_call |-> None, settings |-> None, info_id |-> None ]

\* what was asked of the statistics so far: the increments of each counter
\* and the deltas handed to update_stats
Ledger ==
    [ total_calls |-> 0, pending_calls |-> 0, completed_calls |-> 0,
      error_calls |-> 0, folds |-> << >>, requests |-> {} ]

VARIABLES
    calls,                  \* calls.json: the list of calls (the id is the index)
    stats,                  \* stats.json
    create_pc,              \* where create_call is, the lock held ("idle": not running)
    active_connections,     \* manager.active_connections: its keys
    active_agents,          \* manager.active_agents: its keys
    handler,                \* the runs of websocket_call_endpoint and their locals
    transport,              \* the remote side of each websocket
    ledger,                 \* what was asked of the statistics so far
    settings,               \* settings.json: the ids of information_to_gather
    deltas,                 \* session aggregates waiting to be folded
    arrived                 \* every session aggregate handed over for folding

service_vars ==
    << calls, stats, create_pc, active_connections, active_agents, handler,
       transport, ledger, settings >>
fold_vars == << deltas, arrived >>

\* the files as Database._initialize_files leaves them, no connection open
ServiceInit ==
    /\ calls = << >>
    /\ stats = SystemStats
    /\ create_pc = "idle"
    /\ active_connections = {}
    /\ active_agents = {}
    /\ handler = [ t \in 1..MaxConnects |-> Handler ]
    /\ transport = [ t \in 1..MaxConnects |-> "none" ]
    /\ ledger = Ledger
    /\ settings = Settings
    /\ deltas = << >>
    /\ arrived = << >>

agent_vars ==
    << conversation_history, conversation_summary, last_summary_point,
       tool_calls, gathered_data >>
local_vars ==
    << messages_to_summarize, messages_to_summarize_count, history_to_use,
       response, usage_data, tool_calls_made, full_response, chunk_count,
       response_stream >>
env_vars == << yielded, llm_calls, responds, irregular, deviated >>
session_vars == << agent_vars, pc, local_vars, env_vars >>
vars == << session_vars, service_vars, fold_vars >>

\* CustomerSupportAgent.__init__
Init ==
    /\ conversation_history = UpdateSystemPrompt(<< >>, {})
    /\ conversation_summary = None
    /\ last_summary_point = 0
    /\ tool_calls = << >>
    /\ gathered_data = {}
    /\ pc = "idle"
    /\ messages_to_summarize = << >>
    /\ messages_to_summarize_count = 0
    /\ history_to_use = << >>
    /\ response = None
    /\ usage_data = None
    /\ tool_calls_made = None
    /\ full_response = EmptyText
    /\ chunk_count = 0
    /\ response_stream = 0
    /\ yielded = << >>
    /\ llm_calls = << >>
    /\ responds = 0
    /\ irregular = 0
    /\ deviated = FALSE
    /\ ServiceInit

AppendTurn(h, role, content) == Append(h, ChatMessage(role, content, Len(h) + 1))

\* the model may deviate in this invocation
MayDeviate == deviated \/ irregular < MaxIrregular

Deviate ==
    /\ deviated' = TRUE
    /\ irregular' = IF deviated THEN irregular ELSE irregular + 1

\* get_greeting: called once, before the first user message
GetGreeting ==
    /\ pc = "idle"
    /\ responds = 0
    /\ Len(conversation_history) = 1
    /\ \E ok \in BOOLEAN :
          /\ ok \/ irregular < MaxIrregular
          /\ irregular' = IF ok THEN irregular ELSE irregular + 1
          /\ conversation_history' =
                 AppendTurn(conversation_history, ASSISTANT,
                            IF ok THEN Strip(<< "a", " " >>) ELSE GREETING_FALLBACK)
    /\ UNCHANGED << conversation_summary, last_summary_point, tool_calls,
                    gathered_data, pc, local_vars, yielded, llm_calls, responds,
                    deviated >>
    /\ UNCHANGED << service_vars, fold_vars >>

(***************************************************************************)
(* process_message.  Each action runs the generator from one suspension    *)
(* point (an await or a yield) to the next.                                *)
(***************************************************************************)
\* the tool loop: st = [raised, made, tool_calls, gathered]; raised when
\* json.loads raised, which ends the loop
RECURSIVE RunToolCalls(_, _)
RunToolCalls(tcs, st) ==
    IF tcs = << >> THEN st
    ELSE LET tool_call == Head(tcs)
             function_args == JsonLoads(tool_call.arguments)
         IN  IF tool_call.type # "function" THEN RunToolCalls(Tail(tcs), st)
             ELSE IF IsNone(function_args) THEN [ st EXCEPT !.raised = TRUE ]
             ELSE IF tool_call.name = "save_gathered_data"
             THEN LET saved == SaveGatheredData(st.gathered,
                                   DictGet(Get(function_args), "data_fields", {}))
                      record == [ tool |-> tool_call.name,
                                  args |-> Get(function_args),
                                  result |-> saved.result ]
                  IN  RunToolCalls(Tail(tcs),
                          [ raised |-> FALSE,
                            made |-> Append(st.made, record),
                            tool_calls |-> Append(st.tool_calls, record),
                            gathered |-> saved.gathered ])
             ELSE RunToolCalls(Tail(tcs), st)

TOOL_INFO_MESSAGE == << "You just used tools successfully: ..." >>

\* the outer except: the apology is appended and yielded
ErrorResult(h, y) ==
    [ pc |-> "yield_error",
      history |-> AppendTurn(h, ASSISTANT, ERROR_RESPONSE),
      yielded |-> Append(y, Yield(ERROR_RESPONSE, FALSE, FALSE, None)) ]

\* a faulty variant: the end-of-turn item is yielded and no assistant turn is
\* appended
FinishResult_NoTurn(h, fr, tcm, ud, y) ==
    IF IsNone(tcm)
    THEN [ pc |-> "yield_error", history |-> h,
           yielded |-> Append(y, Yield(ERROR_RESPONSE, FALSE, FALSE, None)) ]
    ELSE [ pc |-> "yield_end", history |-> h,
           yielded |-> Append(y, Yield(EmptyText, FALSE, TRUE, ud)) ]

\* from `if tool_calls_made:` to the last yield; reading tool_calls_made
\* while it is unbound raises UnboundLocalError
FinishResult(h, fr, tcm, ud, y) ==
    IF IsNone(tcm) THEN ErrorResult(h, y)
    ELSE [ pc |-> "yield_end",
           history |-> AppendTurn(h, ASSISTANT, fr),
           yielded |-> Append(y, Yield(EmptyText, FALSE, TRUE, ud)) ]

\* after the inner try/except: `if full_response: yield full_response, ...`
EmitResult(h, fr, tcm, ud, y) ==
    IF Truthy(fr)
    THEN [ pc |-> "yield_text", history |-> h,
           yielded |-> Append(y, Yield(fr, TRUE, FALSE, None)) ]
    ELSE FinishResult(h, fr, tcm, ud, y)

\* the user turn is appended and _update_memory runs up to its await, or,
\* when nothing is to be summarized, the turn goes on to the primary call
ProcessMessage ==
    /\ pc = "idle"
    /\ responds < MaxResponds
    /\ LET h == AppendTurn(conversation_history, USER, UserText)
           n == NonSummarizedCount(h, last_summary_point)
       IN  IF NeedsSummary(h, last_summary_point)
           THEN /\ conversation_history' = h
                /\ messages_to_summarize' = MessagesToSummarize(h, last_summary_point)
                /\ messages_to_summarize_count' = MessagesToSummarizeCount(n)
                /\ history_to_use' = << >>
                /\ llm_calls' =
                       << LLMCall("acomplete",
                                  SummaryPromptMessages(messages_to_summarize'), FALSE) >>
                /\ pc' = "summary_call"
           ELSE /\ conversation_history' = UpdateSystemPrompt(h, gathered_data)
                /\ messages_to_summarize' = << >>
                /\ messages_to_summarize_count' = 0
                /\ history_to_use' =
                       GetCondensedHistory(conversation_history', conversation_summary)
                /\ llm_calls' = << LLMCall("achat", history_to_use', TRUE) >>
                /\ pc' = "primary_call"
    /\ response' = None
    /\ usage_data' = None
    /\ tool_calls_made' = None
    /\ full_response' = EmptyText
    /\ chunk_count' = 0
    /\ response_stream' = 0
    /\ yielded' = << >>
    /\ responds' = responds + 1
    /\ deviated' = FALSE
    /\ UNCHANGED << conversation_summary, last_summary_point, tool_calls,
                    gathered_data, irregular >>
    /\ UNCHANGED << service_vars, fold_vars >>

\* the summarization call ends: _generate_conversation_summary returns the
\* stripped text, or, when the call raised, `self.conversation_summary or ""`;
\* _update_memory stores it and moves the summary point
SummaryReturn ==
    /\ pc = "summary_call"
    /\ \E ok \in BOOLEAN, text \in SummaryTexts :
          /\ (ok /\ text = NominalSummary) \/ MayDeviate
          /\ IF ok /\ text = NominalSummary
             THEN UNCHANGED << irregular, deviated >> ELSE Deviate
          /\ conversation_summary' =
                 Some(IF ok THEN Strip(text)
                      ELSE IF HasSummary(conversation_summary)
                           THEN Get(conversation_summary) ELSE EmptyText)
          /\ last_summary_point' =
                 NewSummaryPoint(last_summary_point, messages_to_summarize_count)
          /\ conversation_history' =
                 UpdateSystemPrompt(conversation_history, gathered_data)
          /\ history_to_use' =
                 GetCondensedHistory(conversation_history', conversation_summary')
          /\ llm_calls' =
                 Append(Ended(llm_calls, IF ok THEN "returned" ELSE "raised"),
                        LLMCall("achat", history_to_use', TRUE))
    /\ pc' = "primary_call"
    /\ UNCHANGED << tool_calls, gathered_data, messages_to_summarize,
                    messages_to_summarize_count, response, usage_data,
                    tool_calls_made, full_response, chunk_count, response_stream,
                    yielded, responds >>
    /\ UNCHANGED << service_vars, fold_vars >>

\* the fallback of the inner except: `await self.llm.astream_chat(history_to_use)`
ToStreamFallback(outcome) ==
    /\ llm_calls' = Append(Ended(llm_calls, outcome),
                           LLMCall("astream_chat", history_to_use, FALSE))
    /\ pc' = "stream_open"

\* the steps after the inner try/except, from a state with no call pending
Emit(h, fr, tcm, ud) ==
    LET r == EmitResult(h, fr, tcm, ud, yielded)
    IN  /\ pc' = r.pc
        /\ conversation_history' = r.history
        /\ yielded' = r.yielded

\* the primary achat raises: tool_calls_made is not bound yet
PrimaryRaise ==
    /\ pc = "primary_call"
    /\ MayDeviate
    /\ Deviate
    /\ ToStreamFallback("raised")
    /\ UNCHANGED << agent_vars, local_vars, yielded, responds >>
    /\ UNCHANGED << service_vars, fold_vars >>

\* the primary achat returns: usage, the tool loop, and either the follow-up
\* call (tools were used and the text is blank) or the response is emitted
PrimaryReturn ==
    /\ pc = "primary_call"
    /\ \E r \in PrimaryResponses :
          /\ NominalChat(r) \/ MayDeviate
          /\ IF NominalChat(r) THEN UNCHANGED << irregular, deviated >> ELSE Deviate
          /\ response' = Some(r)
          /\ usage_data' = r.usage
          /\ LET run == RunToolCalls(r.tool_calls,
                            [ raised |-> FALSE, made |-> << >>,
                              tool_calls |-> tool_calls, gathered |-> gathered_data ])
             IN  /\ tool_calls_made' = Some(run.made)
                 /\ tool_calls' = run.tool_calls
                 /\ gathered_data' = run.gathered
                 /\ IF run.raised
                    THEN /\ ToStreamFallback("returned")
                         /\ UNCHANGED << conversation_history, full_response, yielded >>
                    ELSE /\ full_response' = r.content
                         /\ IF IsBlank(r.content) /\ run.made # << >>
                            THEN /\ conversation_history' =
                                        AppendTurn(conversation_history, SYSTEM,
                                                   TOOL_INFO_MESSAGE)
                                 /\ llm_calls' =
                                        Append(Ended(llm_calls, "returned"),
                                               LLMCall("achat",
                                                   GetCondensedHistory(
                                                       conversation_history',
                                                       conversation_summary),
                                                   TRUE))
                                 /\ pc' = "followup_call"
                                 /\ yielded' = yielded
                            ELSE /\ llm_calls' = Ended(llm_calls, "returned")
                                 /\ Emit(conversation_history, r.content,
                                         Some(run.made), r.usage)
    /\ UNCHANGED << conversation_summary, last_summary_point, messages_to_summarize,
                    messages_to_summarize_count, history_to_use, chunk_count,
                    response_stream, responds >>
    /\ UNCHANGED << service_vars, fold_vars >>

\* the follow-up achat raises: the note is still the last turn
FollowupRaise ==
    /\ pc = "followup_call"
    /\ ToStreamFallback("raised")
    /\ UNCHANGED << agent_vars, local_vars, yielded, responds, irregular, deviated >>
    /\ UNCHANGED << service_vars, fold_vars >>

\* a faulty variant: the usage of the follow-up replaces the primary's
MergeUsage_Replace(ud, followup_usage) ==
    IF IsNone(followup_usage) THEN ud ELSE followup_usage

\* usage_data after the follow-up: summed field by field with the primary's
MergeUsage(ud, followup_usage) ==
    IF IsNone(followup_usage) THEN ud
    ELSE IF ~IsNone(ud)
    THEN Some([ prompt_tokens |-> Get(ud).prompt_tokens + Get(followup_usage).prompt_tokens,
                completion_tokens |->
                    Get(ud).completion_tokens + Get(followup_usage).completion_tokens,
                total_tokens |-> Get(ud).total_tokens + Get(followup_usage).total_tokens ])
    ELSE followup_usage

\* self.conversation_history.pop()
Pop(h) == SubSeq(h, 1, Len(h) - 1)

\* the follow-up achat returns: usage is merged, the note is popped, a blank
\* text is replaced by the fixed string, and the response is emitted
FollowupReturnWith(r) ==
    /\ pc = "followup_call"
    /\ LET text == IF IsBlank(r.content) THEN FOLLOWUP_FALLBACK ELSE r.content
       IN  /\ usage_data' = MergeUsage(usage_data, r.usage)
           /\ full_response' = text
           /\ llm_calls' = Ended(llm_calls, "returned")
           /\ Emit(Pop(conversation_history), text, tool_calls_made, usage_data')
    /\ UNCHANGED << conversation_summary, last_summary_point, tool_calls,
                    gathered_data, messages_to_summarize, messages_to_summarize_count,
                    history_to_use, response, tool_calls_made, chunk_count,
                    response_stream, responds, irregular, deviated >>
    /\ UNCHANGED << service_vars, fold_vars >>

FollowupReturn == \E r \in FollowupResponses : FollowupReturnWith(r)

\* astream_chat raises: the outer except
StreamOpenRaise ==
    /\ pc = "stream_open"
    /\ llm_calls' = Ended(llm_calls, "raised")
    /\ LET r == ErrorResult(conversation_history, yielded)
       IN  /\ pc' = r.pc
           /\ conversation_history' = r.history
           /\ yielded' = r.yielded
    /\ UNCHANGED << conversation_summary, last_summary_point, tool_calls,
                    gathered_data, local_vars, responds, irregular, deviated >>
    /\ UNCHANGED << service_vars, fold_vars >>

\* astream_chat returns the stream
StreamOpen ==
    /\ pc = "stream_open"
    /\ response_stream' = 0
    /\ full_response' = EmptyText
    /\ chunk_count' = 0
    /\ llm_calls' = Ended(llm_calls, "returned")
    /\ pc' = "stream_next"
    /\ UNCHANGED << agent_vars, messages_to_summarize, messages_to_summarize_count,
                    history_to_use, response, usage_data, tool_calls_made,
                    yielded, responds, irregular, deviated >>
    /\ UNCHANGED << service_vars, fold_vars >>

\* the stream raises while it is iterated: the outer except
StreamRaise ==
    /\ pc = "stream_next"
    /\ LET r == ErrorResult(conversation_history, yielded)
       IN  /\ pc' = r.pc
           /\ conversation_history' = r.history
           /\ yielded' = r.yielded
    /\ UNCHANGED << conversation_summary, last_summary_point, tool_calls,
                    gathered_data, local_vars, llm_calls, responds, irregular,
                    deviated >>
    /\ UNCHANGED << service_vars, fold_vars >>

\* the stream delivers its next delta: a non-empty one is yielded
StreamNext ==
    /\ pc = "stream_next"
    /\ response_stream < MaxChunks
    /\ response_stream' = response_stream + 1
    /\ \E delta \in Deltas :
          IF Truthy(delta)
          THEN /\ full_response' = full_response \o delta
               /\ chunk_count' = chunk_count + 1
               /\ yielded' =
                      Append(yielded, Yield(delta, chunk_count' = 1, FALSE, None))
               /\ pc' = "yield_chunk"
          ELSE UNCHANGED << full_response, chunk_count, yielded, pc >>
    /\ UNCHANGED << agent_vars, messages_to_summarize, messages_to_summarize_count,
                    history_to_use, response, usage_data, tool_calls_made,
                    llm_calls, responds, irregular, deviated >>
    /\ UNCHANGED << service_vars, fold_vars >>

\* the stream ends: the steps after the inner try/except run
StreamEnd ==
    /\ pc = "stream_next"
    /\ Emit(conversation_history, full_response, tool_calls_made, usage_data)
    /\ UNCHANGED << conversation_summary, last_summary_point, tool_calls,
                    gathered_data, local_vars, llm_calls, responds, irregular,
                    deviated >>
    /\ UNCHANGED << service_vars, fold_vars >>

\* the consumer asks for the next item after a streamed delta
ResumeChunk ==
    /\ pc = "yield_chunk"
    /\ pc' = "stream_next"
    /\ UNCHANGED << agent_vars, local_vars, env_vars >>
    /\ UNCHANGED << service_vars, fold_vars >>

\* the consumer asks for the next item after the full text: the assistant
\* turn is appended and the end-of-turn item is yielded
ResumeText ==
    /\ pc = "yield_text"
    /\ LET r == FinishResult(conversation_history, full_response, tool_calls_made,
                             usage_data, yielded)
       IN  /\ pc' = r.pc
           /\ conversation_history' = r.history
           /\ yielded' = r.yielded
    /\ UNCHANGED << conversation_summary, last_summary_point, tool_calls,
                    gathered_data, local_vars, llm_calls, responds, irregular,
                    deviated >>
    /\ UNCHANGED << service_vars, fold_vars >>

\* the consumer asks for the next item after the last yield: the generator
\* ends and its frame is gone
Return ==
    /\ pc \in { "yield_end", "yield_error" }
    /\ pc' = "idle"
    /\ messages_to_summarize' = << >>
    /\ messages_to_summarize_count' = 0
    /\ history_to_use' = << >>
    /\ response' = None
    /\ usage_data' = None
    /\ tool_calls_made' = None
    /\ full_response' = EmptyText
    /\ chunk_count' = 0
    /\ response_stream' = 0
    /\ yielded' = << >>
    /\ llm_calls' = << >>
    /\ deviated' = FALSE
    /\ UNCHANGED << agent_vars, responds, irregular >>
    /\ UNCHANGED << service_vars, fold_vars >>

Next ==
    \/ GetGreeting
    \/ ProcessMessage
    \/ SummaryReturn
    \/ PrimaryRaise
    \/ PrimaryReturn
    \/ FollowupRaise
    \/ FollowupReturn
    \/ StreamOpenRaise
    \/ StreamOpen
    \/ StreamRaise
    \/ StreamNext
    \/ StreamEnd
    \/ ResumeChunk
    \/ ResumeText
    \/ Return

Spec == Init /\ [][Next]_vars

(***************************************************************************)
(* Properties.                                                             *)
(***************************************************************************)
\* the calls of the log that carry a condensed context
ChatCalls == { i \in DOMAIN llm_calls : llm_calls[i].kind \in { "achat", "astream_chat" } }

\* the follow-up calls of the invocation: every achat after the primary one
FollowupCalls ==
    { i \in DOMAIN llm_calls :
        /\ llm_calls[i].kind = "achat"
        /\ \E j \in 1..(i - 1) : llm_calls[j].kind = "achat" }

\* a summarization call was made in this invocation and has ended
SummarizedNow ==
    /\ llm_calls # << >>
    /\ llm_calls[1].kind = "acomplete"
    /\ llm_calls[1].outcome # "pending"

\* the invocation has run to its last yield
Finished == pc \in { "yield_end", "yield_error" }

\* at least one tool was executed in this invocation
ToolExecuted == ~IsNone(tool_calls_made) /\ Get(tool_calls_made) # << >>

\* C1: in every reachable state, the follow-up note in the transcript or not,
\* the condensed context, and every context the language model was sent,
\* has at most 2 + keep_recent_messages turns: the system turn, at most one
\* summary turn and at most keep_recent_messages non-system turns.
C1_CondensedBounded ==
    LET bounded(c) ==
            /\ Len(c) <= 2 + keep_recent_messages
            /\ c[1] = conversation_history[1] \/ c[1].id = 1
            /\ Cardinality({ i \in DOMAIN c : c[i].id = 0 }) <= 1
            /\ Cardinality({ i \in DOMAIN c : c[i].role # SYSTEM })
                   <= keep_recent_messages
    IN  /\ bounded(GetCondensedHistory(conversation_history, conversation_summary))
        /\ \A i \in ChatCalls : bounded(llm_calls[i].messages)

\* C1 witness: the follow-up call is pending with the note in a transcript far
\* longer than the context, which has exactly 2 + keep_recent_messages turns
C1_Witness ==
    /\ pc = "followup_call"
    /\ conversation_history[Len(conversation_history)].content = TOOL_INFO_MESSAGE
    /\ Len(conversation_history) > summary_threshold
    /\ Len(llm_calls[Len(llm_calls)].messages) = 2 + keep_recent_messages

\* C2: last_summary_point never decreases, whatever step is taken.
C2_BoundaryMonotone == [][last_summary_point' >= last_summary_point]_vars

\* C2 witness: the summary point was advanced a second time, by a
\* summarization call that failed
C2_Witness ==
    /\ pc = "primary_call"
    /\ SummarizedNow
    /\ llm_calls[1].outcome = "raised"
    /\ last_summary_point > summary_threshold

\* C3: when the summarization call fails, last_summary_point is not advanced,
\* the summary is left as it was and the turn goes on to the primary call.
C3_FailureKeepsMemory ==
    [][(pc = "summary_call" /\ llm_calls'[1].outcome = "raised")
        => /\ last_summary_point' = last_summary_point
           /\ conversation_summary' = conversation_summary
           /\ pc' = "primary_call"]_vars

\* C4: no context sent to the language model (primary call, follow-up call or
\* stream fallback) holds a non-system turn of the transcript whose index is
\* below last_summary_point.  Every turn of the transcript carries its index
\* as id (first conjunct), so the turn a sent message is, if any, is found at
\* that index.
C4_NoResendBelowBoundary ==
    /\ \A p \in DOMAIN conversation_history : conversation_history[p].id = p
    /\ last_summary_point > 0 =>
           \A i \in DOMAIN llm_calls :
               llm_calls[i].kind \in { "achat", "astream_chat" } =>
                   \A j \in DOMAIN llm_calls[i].messages :
                       LET m == llm_calls[i].messages[j]
                       IN  m.role # SYSTEM =>
                               ~ /\ m.id - 1 \in 1..last_summary_point
                                 /\ m.id <= Len(conversation_history)
                                 /\ conversation_history[m.id] = m

\* C4 witness: with a summary point above 0, one invocation has sent the
\* primary call, the follow-up call and the stream fallback
C4_Witness ==
    /\ last_summary_point > 0
    /\ FollowupCalls # {}
    /\ \E i \in ChatCalls : llm_calls[i].kind = "astream_chat"

\* C5: with n non-summarized turns and n >= summary_threshold, _update_memory
\* summarizes the n - keep_recent_messages oldest of them, one slice starting
\* at last_summary_point, and advances last_summary_point by that number; with
\* n < summary_threshold it calls nothing and changes nothing.  With 20
\* non-summarized turns the summary point becomes 16 and the next condensed
\* context is the system turn, one summary turn and the last 4 turns.
C5_Condense ==
    [][/\ (pc = "idle" /\ responds' = responds + 1) =>
              LET n == NonSummarizedCount(conversation_history', last_summary_point)
              IN  IF n >= summary_threshold
                  THEN /\ pc' = "summary_call"
                       /\ messages_to_summarize' =
                              SubSeq(conversation_history', 2 + last_summary_point,
                                     1 + last_summary_point + n - keep_recent_messages)
                  ELSE /\ pc' = "primary_call"
                       /\ UNCHANGED << last_summary_point, conversation_summary >>
       /\ pc = "summary_call" =>
              LET n == NonSummarizedCount(conversation_history, last_summary_point)
              IN  /\ last_summary_point' =
                         last_summary_point + n - keep_recent_messages
                  /\ (n = 20 /\ last_summary_point = 0) =>
                         /\ last_summary_point' = 16
                         /\ Len(history_to_use') = 6
                         /\ history_to_use'[1] = conversation_history'[1]
                         /\ history_to_use'[2].role = SYSTEM
                         /\ history_to_use'[2].id = 0
                         /\ SubSeq(history_to_use', 3, 6) =
                                LastN(Tail(conversation_history'), 4)]_vars

\* C6: a second _update_memory right after the first, with no turn added in
\* between, makes no summarization call and so leaves last_summary_point and
\* the summary as they are.
C6_Idempotent ==
    pc = "primary_call" => ~NeedsSummary(conversation_history, last_summary_point)

\* C6 witness: _update_memory has just summarized and moved the summary point
C6_Witness ==
    /\ pc = "primary_call"
    /\ SummarizedNow
    /\ llm_calls[1].outcome = "returned"
    /\ last_summary_point = summary_threshold - keep_recent_messages

\* C7: once process_message has returned, the transcript holds no follow-up
\* note, however the follow-up call ended.
C7_NoteDiscarded ==
    pc = "idle" =>
        \A i \in DOMAIN conversation_history :
            conversation_history[i].content # TOOL_INFO_MESSAGE

\* C8: an invocation makes one follow-up call when at least one tool was
\* executed and the primary text is empty or blank, and none otherwise; it
\* never makes more than one.
C8_OneFollowup ==
    Finished =>
        Cardinality(FollowupCalls) =
            IF /\ ~IsNone(response)
               /\ ToolExecuted
               /\ IsBlank(Get(response).content)
            THEN 1 ELSE 0

\* C9: when an invocation executed at least one tool, the assistant turn it
\* appends has non-empty text.
C9_TextWithStateChange ==
    (Finished /\ ToolExecuted) =>
        LET last == conversation_history[Len(conversation_history)]
        IN  last.role = ASSISTANT /\ Truthy(last.content)

\* C10: between invocations the transcript has one SYSTEM turn at most, and
\* it is the first turn.
C10_OneSystemTurn ==
    pc = "idle" =>
        \A i \in DOMAIN conversation_history :
            conversation_history[i].role = SYSTEM => i = 1

(***************************************************************************)
(* The database (models/database.py).  A method that holds the lock has no *)
(* await inside, so it is one step; create_call and update_call_status     *)
(* await other methods and are several steps.                              *)
(***************************************************************************)
\* self.lock is held: only create_call holds it across an await
Locked == create_pc # "idle"

\* a faulty variant: the value is written over what was counted before
IncrementStat_Overwrite(st, stat_name, value) == [ st EXCEPT ![stat_name] = value ]

\* Database._increment_stat
IncrementStat(st, stat_name, value) == [ st EXCEPT ![stat_name] = @ + value ]

\* the += of update_stats on the usage, field by field
UsagePlus(a, b) ==
    [ input_tokens |-> a.input_tokens + b.input_tokens,
      output_tokens |-> a.output_tokens + b.output_tokens,
      input_characters |-> a.input_characters + b.input_characters,
      output_characters |-> a.output_characters + b.output_characters,
      transcription_seconds |-> a.transcription_seconds + b.transcription_seconds,
      tts_characters |-> a.tts_characters + b.tts_characters,
      llm_calls |-> a.llm_calls + b.llm_calls,
      llm_latency_ms |-> a.llm_latency_ms + b.llm_latency_ms ]

\* the += of update_stats on the costs: the total is added like a component
CostPlus(a, b) ==
    [ llm_input_cost |-> a.llm_input_cost + b.llm_input_cost,
      llm_output_cost |-> a.llm_output_cost + b.llm_output_cost,
      transcription_cost |-> a.transcription_cost + b.transcription_cost,
      tts_cost |-> a.tts_cost + b.tts_cost,
      total_cost |-> a.total_cost + b.total_cost ]

\* the model-specific latency statistics of update_stats
ModelLatencies(ml, model_name, call_tokens, call_latency_ms) ==
    IF model_name # "" /\ call_tokens # 0 /\ call_latency_ms # 0
    THEN LET old == IF model_name \in Keys(ml)
                    THEN (CHOOSE kv \in ml : kv[1] = model_name)[2]
                    ELSE ModelLatencyStats(model_name)
             sums == [ old EXCEPT !.total_calls = @ + 1,
                                  !.total_tokens = @ + call_tokens,
                                  !.total_latency_ms = @ + call_latency_ms ]
             new == IF sums.total_tokens > 0
                    THEN [ sums EXCEPT !.avg_latency_per_100_tokens =
                             AvgLatencyPer100Tokens(sums.total_latency_ms,
                                                    sums.total_tokens) ]
                    ELSE sums
         IN  DictUpdate(ml, { << model_name, new >> })
    ELSE ml

\* a faulty variant: the usage delta replaces the total
UpdateStats_Replace(st, usage_delta, cost_delta, model_name, call_tokens, call_latency_ms) ==
    [ st EXCEPT !.total_usage = usage_delta,
                !.total_costs = CostPlus(@, cost_delta) ]

\* Database.update_stats
UpdateStats(st, usage_delta, cost_delta, model_name, call_tokens, call_latency_ms) ==
    [ st EXCEPT !.total_usage = UsagePlus(@, usage_delta),
                !.total_costs = CostPlus(@, cost_delta),
                !.model_latencies =
                    ModelLatencies(@, model_name, call_tokens, call_latency_ms) ]

\* what the handler hands to update_stats for a call
FoldOf(call) ==
    [ id |-> call.id, usage |-> call.usage_stats, cost |-> call.cost_stats,
      model_name |-> call.model_name,
      call_tokens |-> call.usage_stats.input_tokens + call.usage_stats.output_tokens,
      call_latency_ms |-> call.usage_stats.llm_latency_ms ]

FoldInto(st, f) ==
    UpdateStats(st, f.usage, f.cost, f.model_name, f.call_tokens, f.call_latency_ms)

\* a faulty variant: the first stored call is replaced, whatever its id
UpdateCall_First(cs, call) == [ cs EXCEPT ![1] = call ]

\* Database.update_call: the stored call with that id is replaced
UpdateCall(cs, call) == [ cs EXCEPT ![call.id] = call ]

\* Database.add_message_to_call
AddMessageToCall(cs, call_id, message) ==
    UpdateCall(cs, [ cs[call_id] EXCEPT !.messages = Append(@, message) ])

\* a faulty variant: the error message is dropped
SetStatus_NoMessage(call, status, error_message) ==
    [ call EXCEPT !.status = status,
                  !.end_time = IF status = COMPLETED THEN TRUE ELSE @ ]

\* update_call_status, on the call it has read
SetStatus(call, status, error_message) ==
    [ call EXCEPT !.status = status,
                  !.end_time = IF status = COMPLETED THEN TRUE ELSE @,
                  !.error_message =
                      IF ~IsNone(error_message) /\ Truthy(Get(error_message))
                      THEN error_message ELSE @ ]

\* POST /call/start, create_call: the call is appended under the lock
CreateCall ==
    /\ create_pc = "idle"
    /\ Len(calls) < MaxCalls
    /\ calls' = Append(calls, Call(Len(calls) + 1, MODEL_NAME))
    /\ create_pc' = "total_calls"
    /\ UNCHANGED << stats, active_connections, active_agents, handler,
                    transport, ledger, settings, session_vars, fold_vars >>

\* create_call: await self._increment_stat("total_calls")
CreateCallTotal ==
    /\ create_pc = "total_calls"
    /\ stats' = IncrementStat(stats, "total_calls", 1)
    /\ ledger' = [ ledger EXCEPT !.total_calls = @ + 1 ]
    /\ create_pc' = "pending_calls"
    /\ UNCHANGED << calls, active_connections, active_agents, handler,
                    transport, settings, session_vars, fold_vars >>

\* create_call: await self._increment_stat("pending_calls"); the lock is
\* released
CreateCallPending ==
    /\ create_pc = "pending_calls"
    /\ stats' = IncrementStat(stats, "pending_calls", 1)
    /\ ledger' = [ ledger EXCEPT !.pending_calls = @ + 1 ]
    /\ create_pc' = "idle"
    /\ UNCHANGED << calls, active_connections, active_agents, handler,
                    transport, settings, session_vars, fold_vars >>

(***************************************************************************)
(* The websocket handler (routers/chat.py).                                *)
(***************************************************************************)
\* the text of the greeting, precomputed or generated
GREETING == << "h", "i", "!" >>

\* what transcribe_audio_stream returns for an audio message
Transcriptions == { EmptyText, << " " >>, << "u", "u", "u", "u", " ", "u", "u", "u" >> }
\* len(audio_bytes) / 16000
AudioSeconds == { 5 }

\* the text of an answer and the exact usage the language model may report
ANSWER == << "a", "a", "a", "a", "a" >>

\* one item yielded by process_message, as the tuple it is
Item(chunk, first_latency, total_latency, usage) ==
    << chunk, first_latency, total_latency, usage >>

\* what one process_message yields, from first to last: the text and the
\* end-of-turn item with or without exact usage, or the apology
ProcessResults ==
    { << Item(ANSWER, Some(4), None, None), Item(EmptyText, None, Some(9), Some(Usage)) >>,
      << Item(ANSWER, Some(4), None, None), Item(EmptyText, None, Some(9), None) >>,
      << Item(ERROR_RESPONSE, None, None, None) >> }

\* chunk, first_latency, total_latency = chunk_data: the items it accepts
Unpacks(chunk_data) == Len(chunk_data) = 3

\* the loop over the items: the text sent and the last total latency
RECURSIVE ConsumeItems(_, _, _)
ConsumeItems(its, response_text, total_latency_ms) ==
    IF its = << >>
    THEN [ response_text |-> response_text, total_latency_ms |-> total_latency_ms ]
    ELSE LET chunk_data == Head(its)
         IN  ConsumeItems(Tail(its),
                          IF Truthy(chunk_data[1])
                          THEN response_text \o chunk_data[1] ELSE response_text,
                          IF ~IsNone(chunk_data[3])
                          THEN chunk_data[3] ELSE total_latency_ms)

\* the accounting of a transcribed utterance
UserAccounting(call, transcription, seconds) ==
    [ call EXCEPT
        !.usage_stats = [ @ EXCEPT
            !.input_characters = @ + Len(transcription),
            !.transcription_seconds = @ + seconds ],
        !.cost_stats = [ @ EXCEPT
            !.transcription_cost =
                @ + (seconds * price_per_5s_transcription) \div 5 ] ]

\* the accounting of an answer: the tokens are estimated from the characters
TurnAccounting(call, response_text, transcription, total_latency_ms) ==
    LET estimated_output_tokens == Len(response_text) \div estimated_token_length
        estimated_input_tokens == Len(transcription) \div estimated_token_length
    IN  [ call EXCEPT
            !.usage_stats = [ @ EXCEPT
                !.output_characters = @ + Len(response_text),
                !.llm_calls = @ + 1,
                !.llm_latency_ms =
                    @ + (IF ~IsNone(total_latency_ms) /\ Get(total_latency_ms) # 0
                         THEN Get(total_latency_ms) ELSE 0),
                !.output_tokens = @ + estimated_output_tokens,
                !.input_tokens = @ + estimated_input_tokens ],
            !.cost_stats = [ @ EXCEPT
                !.llm_output_cost =
                    @ + estimated_output_tokens * price_per_million_output_tokens,
                !.llm_input_cost =
                    @ + estimated_input_tokens * price_per_million_input_tokens ] ]

\* the accounting of synthesized speech at the configured price
TtsAccounting(call, text) ==
    [ call EXCEPT
        !.usage_stats.tts_characters = @ + Len(text),
        !.cost_stats.tts_cost = @ + (Len(text) * price_per_10k_tts_chars) \div 10000 ]

\* the accounting of the speech of a generated greeting
GreetingTtsAccounting(call, text) ==
    [ call EXCEPT
        !.usage_stats.tts_characters = @ + Len(text),
        !.cost_stats.tts_cost = @ + Len(text) * GREETING_TTS_PRICE ]

\* call.cost_stats.total_cost = the sum of the four components
TotalCost(call) == [ call EXCEPT !.cost_stats.total_cost = CostSum(call.cost_stats) ]

\* how a send_json ends: on a lost transport the build decides whether it
\* returns, raises WebSocketDisconnect or raises another exception
SendOutcomes(tr) == IF tr = "open" THEN { "ok" } ELSE { "ok", "disconnect", "error" }

\* except Exception at the outer level: ERROR unless a disconnect was detected
Raise(h, e) ==
    IF ~h.websocket_disconnected
    THEN [ h EXCEPT !.pc = "ucs_get", !.status = ERROR, !.error_message = Some(e) ]
    ELSE [ h EXCEPT !.pc = "finally" ]

\* except WebSocketDisconnect at the outer level
HangUp(h) == [ h EXCEPT !.websocket_disconnected = TRUE, !.pc = "finally" ]

\* a disconnect detected inside the loop: break
Break(h) == [ h EXCEPT !.websocket_disconnected = TRUE, !.pc = "end_summary" ]

\* how a send_json at the outer level of the handler goes on
AfterSend(h, outcome, next) ==
    CASE outcome = "ok" -> [ h EXCEPT !.pc = next ]
      [] outcome = "disconnect" -> HangUp(h)
      [] OTHER -> Raise(h, << "s", "e", "n", "d" >>)

\* a websocket is opened on /ws/call/{call_id}: the call is read, stamped with
\* the model and stored, and the agent is built; an unknown id is answered
\* with an error and the handler returns
Open(t, call_id) ==
    /\ handler[t].pc = "none"
    /\ ~Locked
    /\ IF call_id > Len(calls)
       THEN /\ transport' = [ transport EXCEPT ![t] = "closed" ]
            /\ handler' = [ handler EXCEPT ![t] = [ @ EXCEPT !.pc = "done",
                                                          !.call_id = call_id ] ]
            /\ active_connections' = active_connections \ { call_id }
            /\ active_agents' = active_agents \ { call_id }
            /\ calls' = calls
       ELSE LET call == [ calls[call_id] EXCEPT !.model_name = MODEL_NAME ]
                h == [ handler[t] EXCEPT !.call_id = call_id, !.call = Some(call) ]
            IN  /\ transport' = [ transport EXCEPT ![t] = "open" ]
                /\ calls' = UpdateCall(calls, call)
                /\ active_connections' = active_connections \cup { call_id }
                /\ \E built \in BOOLEAN :
                      IF built
                      THEN /\ active_agents' = active_agents \cup { call_id }
                           /\ handler' = [ handler EXCEPT ![t] =
                                             [ h EXCEPT !.pc = "greeting" ] ]
                      ELSE /\ active_agents' = active_agents
                           /\ handler' = [ handler EXCEPT ![t] =
                                             Raise(h, << "a", "g", "e", "n", "t" >>) ]
    /\ UNCHANGED << stats, create_pc, ledger, settings, session_vars, fold_vars >>

\* a websocket is opened, the earlier connections being over
Connect(t, call_id) ==
    /\ \A u \in 1..(t - 1) : handler[u].pc = "done"
    /\ Open(t, call_id)

\* the greeting, precomputed or generated, is added to the stored call
Greeting(t) ==
    /\ handler[t].pc = "greeting"
    /\ ~Locked
    /\ \E greeting_data \in BOOLEAN :
          LET greeting == GREETING
          IN  /\ calls' = AddMessageToCall(calls, handler[t].call_id,
                                           Message(ASSISTANT, greeting))
              /\ handler' = [ handler EXCEPT ![t] =
                                [ @ EXCEPT !.pc = "greet_send",
                                           !.greeting_data = greeting_data,
                                           !.greeting = greeting ] ]
    /\ UNCHANGED << stats, create_pc, active_connections, active_agents,
                    transport, ledger, settings, session_vars, fold_vars >>

\* the greeting text is sent
GreetSend(t) ==
    /\ handler[t].pc = "greet_send"
    /\ \E outcome \in SendOutcomes(transport[t]) :
          handler' = [ handler EXCEPT ![t] = AfterSend(@, outcome, "greet_audio") ]
    /\ UNCHANGED << calls, stats, create_pc, active_connections, active_agents,
                    transport, ledger, settings, session_vars, fold_vars >>

\* the greeting audio is sent and accounted on the handler's copy of the
\* call, which is stored; for a generated greeting a failure of the synthesis
\* or of the send is logged and nothing is accounted (greeting and
\* greeting_data are not read again and are dropped)
GreetAudio(t) ==
    /\ handler[t].pc = "greet_audio"
    /\ ~Locked
    /\ LET h == handler[t]
       IN  \E outcome \in SendOutcomes(transport[t]), synthesized \in BOOLEAN :
              IF h.greeting_data
              THEN /\ synthesized
                   /\ IF outcome = "ok"
                      THEN LET call == TtsAccounting(Get(h.call), h.greeting)
                           IN  /\ calls' = UpdateCall(calls, call)
                               /\ handler' = [ handler EXCEPT ![t] =
                                     [ h EXCEPT !.call = Some(call), !.pc = "receive",
                                                !.greeting = EmptyText,
                                                !.greeting_data = FALSE ] ]
                      ELSE /\ calls' = calls
                           /\ handler' = [ handler EXCEPT ![t] =
                                             AfterSend(h, outcome, "receive") ]
              ELSE IF synthesized /\ outcome = "ok"
                   THEN LET call == GreetingTtsAccounting(Get(h.call), h.greeting)
                        IN  /\ calls' = UpdateCall(calls, call)
                            /\ handler' = [ handler EXCEPT ![t] =
                                  [ h EXCEPT !.call = Some(call), !.pc = "receive",
                                                !.greeting = EmptyText,
                                                !.greeting_data = FALSE ] ]
                   ELSE /\ calls' = calls
                        /\ handler' = [ handler EXCEPT ![t] =
                                          [ h EXCEPT !.pc = "receive",
                                                     !.greeting = EmptyText,
                                                     !.greeting_data = FALSE ] ]
    /\ UNCHANGED << stats, create_pc, active_connections, active_agents,
                    transport, ledger, settings, session_vars, fold_vars >>

\* receive_json: an audio message, end_call, a message the handler cannot
\* read, or WebSocketDisconnect when the remote side is gone
Receive(t) ==
    /\ handler[t].pc = "receive"
    /\ IF transport[t] = "lost"
       THEN handler' = [ handler EXCEPT ![t] = Break(@) ]
       ELSE \E type \in { "audio", "end_call", "unreadable" } :
               /\ type = "audio" => handler[t].turns < MaxTurns
               /\ handler' = [ handler EXCEPT ![t] =
                     [ @ EXCEPT !.pc = CASE type = "audio" -> "transcribe"
                                         [] type = "end_call" -> "end_summary"
                                         [] OTHER -> "loop_error",
                                !.turns = IF type = "audio" THEN @ + 1 ELSE @ ] ]
    /\ UNCHANGED << calls, stats, create_pc, active_connections, active_agents,
                    transport, ledger, settings, session_vars, fold_vars >>

\* the audio is transcribed; a blank transcription is skipped; otherwise the
\* transcription is sent, the user message is added and the utterance is
\* accounted on the stored call
Transcribe(t) ==
    /\ handler[t].pc = "transcribe"
    /\ ~Locked
    /\ LET h == handler[t]
       IN  \E transcribed \in BOOLEAN, transcription \in Transcriptions,
              seconds \in AudioSeconds, outcome \in SendOutcomes(transport[t]) :
              IF ~transcribed
              THEN /\ transcription = EmptyText /\ outcome = "ok"
                   /\ calls' = calls
                   /\ handler' = [ handler EXCEPT ![t] = [ h EXCEPT !.pc = "audio_error" ] ]
              ELSE IF ~Truthy(transcription) \/ ~Truthy(Strip(transcription))
                   THEN /\ outcome = "ok"
                        /\ calls' = calls
                        /\ handler' = [ handler EXCEPT ![t] = [ h EXCEPT !.pc = "receive" ] ]
                   ELSE IF outcome # "ok"
                        THEN /\ calls' = calls
                             /\ handler' = [ handler EXCEPT ![t] =
                                               [ h EXCEPT !.pc = "audio_error" ] ]
                        ELSE LET added == AddMessageToCall(calls, h.call_id,
                                                           Message(USER, transcription))
                                 call == UserAccounting(added[h.call_id],
                                                        transcription, seconds)
                             IN  /\ calls' = UpdateCall(added, call)
                                 /\ handler' = [ handler EXCEPT ![t] =
                                       [ h EXCEPT !.pc = "acknowledge",
                                                  !.call = Some(call),
                                                  !.transcription = transcription,
                                                  !.audio_seconds = seconds ] ]
    /\ UNCHANGED << stats, create_pc, active_connections, active_agents,
                    transport, ledger, settings, session_vars, fold_vars >>

\* after the pause the acknowledgment is sent: a precomputed one outside any
\* inner try, a synthesized one with its failures logged
Acknowledge(t) ==
    /\ handler[t].pc = "acknowledge"
    /\ \E precomputed \in BOOLEAN, outcome \in SendOutcomes(transport[t]) :
          handler' = [ handler EXCEPT ![t] =
              [ @ EXCEPT !.pc = IF precomputed /\ outcome # "ok"
                                THEN "audio_error" ELSE "respond" ] ]
    /\ UNCHANGED << calls, stats, create_pc, active_connections, active_agents,
                    transport, ledger, settings, session_vars, fold_vars >>

\* the items of process_message are taken: an item that does not unpack
\* raises ValueError; otherwise the chunks are sent, the answer is added and
\* accounted, and its speech is sent and accounted
RespondItems(t, its) ==
    /\ handler[t].pc = "respond"
    /\ ~Locked
    /\ LET h == handler[t]
       IN  \E outcome \in SendOutcomes(transport[t]), synthesized \in BOOLEAN :
              IF ~Unpacks(Head(its))
              THEN /\ outcome = "ok" /\ synthesized
                   /\ calls' = calls
                   /\ handler' = [ handler EXCEPT ![t] =
                         [ h EXCEPT !.pc = "audio_error" ] ]
              ELSE IF outcome # "ok"
                   THEN /\ synthesized
                        /\ calls' = calls
                        /\ handler' = [ handler EXCEPT ![t] =
                              [ h EXCEPT !.pc = "audio_error" ] ]
                   ELSE LET r == ConsumeItems(its, EmptyText, None)
                            added == AddMessageToCall(calls, h.call_id,
                                         Message(ASSISTANT, r.response_text))
                            turn == TurnAccounting(added[h.call_id], r.response_text,
                                        h.transcription, r.total_latency_ms)
                            call == IF synthesized
                                    THEN TtsAccounting(turn, r.response_text) ELSE turn
                        IN  /\ calls' = UpdateCall(added, call)
                            /\ handler' = [ handler EXCEPT ![t] =
                                  [ h EXCEPT !.pc = "receive", !.call = Some(call) ] ]
    /\ UNCHANGED << stats, create_pc, active_connections, active_agents,
                    transport, ledger, settings, session_vars, fold_vars >>

Respond(t) == \E its \in ProcessResults : RespondItems(t, its)

\* a faulty variant: the exception is not caught in the loop and reaches the
\* outer handler
Caught_Propagates(h, outcome) == Raise(h, << "t", "u", "r", "n" >>)

\* except Exception around the handling of an audio message (the error has
\* been logged): where the handler is after the send of the error message
Caught(h, outcome) ==
    CASE outcome = "ok" -> [ h EXCEPT !.pc = "receive" ]
      [] outcome = "disconnect" -> Break(h)
      [] OTHER -> [ h EXCEPT !.pc = "loop_error" ]

\* except Exception around the handling of an audio message: the error is
\* sent; a failing send is caught by the handlers of the loop
AudioError(t) ==
    /\ handler[t].pc = "audio_error"
    /\ \E outcome \in SendOutcomes(transport[t]) :
          handler' = [ handler EXCEPT ![t] = Caught(@, outcome) ]
    /\ UNCHANGED << calls, stats, create_pc, active_connections, active_agents,
                    transport, ledger, settings, session_vars, fold_vars >>

\* except Exception in the loop: the error is sent, and a failing send is
\* taken as a disconnect
LoopError(t) ==
    /\ handler[t].pc = "loop_error"
    /\ \E outcome \in SendOutcomes(transport[t]) :
          handler' = [ handler EXCEPT ![t] =
              IF outcome = "ok" THEN [ @ EXCEPT !.pc = "receive" ] ELSE Break(@) ]
    /\ UNCHANGED << calls, stats, create_pc, active_connections, active_agents,
                    transport, ledger, settings, session_vars, fold_vars >>

\* str.strip(chars) for one character
RECURSIVE StripChar(_, _)
StripChar(t, c) ==
    IF t # << >> /\ Head(t) = c THEN StripChar(Tail(t), c)
    ELSE IF t # << >> /\ t[Len(t)] = c THEN StripChar(SubSeq(t, 1, Len(t) - 1), c)
    ELSE t

\* what the language model can answer when asked for a title
TitleTexts == { << "\"", "T", "\"", " " >>, << "T" >> }

SUMMARY_ERROR == << "Error generating summary" >>
TITLE_FALLBACK == << "Customer Support Call" >>

\* CustomerSupportAgent.generate_summary: the stripped text, or a fixed text
\* when the call of the language model raised
GenerateSummary(ok, text) == IF ok THEN Strip(text) ELSE SUMMARY_ERROR

\* CustomerSupportAgent.generate_call_title
GenerateCallTitle(ok, text) ==
    IF ok THEN StripChar(StripChar(Strip(text), "\""), "'") ELSE TITLE_FALLBACK

\* after the loop: summary and title are asked of the registered agent and
\* stored in the call read again; then update_call_status(COMPLETED) is
\* called.  summary_ok and title_ok: the call of the language model returned
EndSummaryWith(t, summary_ok, title_ok) ==
    /\ handler[t].pc = "end_summary"
    /\ ~Locked
    /\ LET h == handler[t]
           next == [ h EXCEPT !.pc = "ucs_get", !.status = COMPLETED,
                              !.error_message = None ]
       IN  IF h.call_id \in active_agents
           THEN \E text \in { NominalSummary }, title \in TitleTexts :
                   LET call == [ calls[h.call_id] EXCEPT
                                   !.summary = Some(GenerateSummary(summary_ok, text)),
                                   !.title = GenerateCallTitle(title_ok, title) ]
                   IN  /\ calls' = UpdateCall(calls, call)
                       /\ handler' = [ handler EXCEPT ![t] =
                                         [ next EXCEPT !.call = Some(call) ] ]
           ELSE /\ summary_ok /\ title_ok
                /\ calls' = calls
                /\ handler' = [ handler EXCEPT ![t] = next ]
    /\ UNCHANGED << stats, create_pc, active_connections, active_agents,
                    transport, ledger, settings, session_vars, fold_vars >>

EndSummary(t) ==
    \E summary_ok, title_ok \in BOOLEAN : EndSummaryWith(t, summary_ok, title_ok)

\* update_call_status: the call is read and changed
UcsGet(t) ==
    /\ handler[t].pc = "ucs_get"
    /\ ~Locked
    /\ LET h == handler[t]
           call == calls[h.call_id]
       IN  handler' = [ handler EXCEPT ![t] =
               [ h EXCEPT !.pc = "ucs_update",
                          !.old_status = call.status,
                          !.ucs_call = Some(SetStatus(call, h.status, h.error_message)) ] ]
    /\ UNCHANGED << calls, stats, create_pc, active_connections, active_agents,
                    transport, ledger, settings, session_vars, fold_vars >>

\* update_call_status: await self.update_call(call)
UcsUpdate(t) ==
    /\ handler[t].pc = "ucs_update"
    /\ ~Locked
    /\ calls' = UpdateCall(calls, Get(handler[t].ucs_call))
    /\ handler' = [ handler EXCEPT ![t] = [ @ EXCEPT !.pc = "ucs_pending" ] ]
    /\ UNCHANGED << stats, create_pc, active_connections, active_agents,
                    transport, ledger, settings, session_vars, fold_vars >>

\* update_call_status: the pending counter, if the call was pending
UcsPending(t) ==
    /\ handler[t].pc = "ucs_pending"
    /\ IF handler[t].old_status = PENDING
       THEN /\ stats' = IncrementStat(stats, "pending_calls", -1)
            /\ ledger' = [ ledger EXCEPT !.pending_calls = @ - 1 ]
       ELSE UNCHANGED << stats, ledger >>
    /\ handler' = [ handler EXCEPT ![t] = [ @ EXCEPT !.pc = "ucs_count" ] ]
    /\ UNCHANGED << calls, create_pc, active_connections, active_agents,
                    transport, settings, session_vars, fold_vars >>

\* update_call_status: the counter of the new status; the handler goes on
\* after COMPLETED and has nothing left to do after ERROR
UcsCount(t) ==
    /\ handler[t].pc = "ucs_count"
    /\ LET stat_name == IF handler[t].status = COMPLETED
                        THEN "completed_calls" ELSE "error_calls"
       IN  /\ stats' = IncrementStat(stats, stat_name, 1)
           /\ ledger' = [ ledger EXCEPT ![stat_name] = @ + 1 ]
    /\ handler' = [ handler EXCEPT ![t] =
          [ @ EXCEPT !.pc = IF handler[t].status = COMPLETED
                            THEN "end_cost" ELSE "finally",
                     !.ucs_call = None ] ]
    /\ UNCHANGED << calls, create_pc, active_connections, active_agents,
                    transport, settings, session_vars, fold_vars >>

\* the call is read again, its total cost is computed and it is stored
EndCost(t) ==
    /\ handler[t].pc = "end_cost"
    /\ ~Locked
    /\ LET call == TotalCost(calls[handler[t].call_id])
       IN  /\ calls' = UpdateCall(calls, call)
           /\ handler' = [ handler EXCEPT ![t] =
                             [ @ EXCEPT !.pc = "update_stats", !.call = Some(call) ] ]
    /\ UNCHANGED << stats, create_pc, active_connections, active_agents,
                    transport, ledger, settings, session_vars, fold_vars >>

\* db.update_stats with the usage and the costs of the call
FoldCall(t) ==
    /\ handler[t].pc = "update_stats"
    /\ ~Locked
    /\ LET f == FoldOf(Get(handler[t].call))
       IN  /\ stats' = FoldInto(stats, f)
           /\ ledger' = [ ledger EXCEPT !.folds = Append(@, f) ]
    /\ handler' = [ handler EXCEPT ![t] = [ @ EXCEPT !.pc = "finally" ] ]
    /\ UNCHANGED << calls, create_pc, active_connections, active_agents,
                    transport, settings, session_vars, fold_vars >>

\* finally: manager.disconnect(call_id); the handler returns, its locals are
\* gone (the call id and the disconnect flag are kept for the record) and
\* the websocket is closed
Finally(t) ==
    /\ handler[t].pc = "finally"
    /\ active_connections' = active_connections \ { handler[t].call_id }
    /\ active_agents' = active_agents \ { handler[t].call_id }
    /\ handler' = [ handler EXCEPT ![t] =
          [ Handler EXCEPT !.pc = "done", !.call_id = handler[t].call_id,
                           !.websocket_disconnected =
                               handler[t].websocket_disconnected ] ]
    /\ transport' = [ transport EXCEPT ![t] = "closed" ]
    /\ UNCHANGED << calls, stats, create_pc, ledger, settings, session_vars, fold_vars >>

\* the remote side goes away
RemoteClose(t) ==
    /\ transport[t] = "open"
    /\ handler[t].pc \notin { "none", "done" }
    /\ transport' = [ transport EXCEPT ![t] = "lost" ]
    /\ UNCHANGED << calls, stats, create_pc, active_connections, active_agents,
                    handler, ledger, settings, session_vars, fold_vars >>

CallNext ==
    \/ CreateCall
    \/ CreateCallTotal
    \/ CreateCallPending
    \/ \E t \in 1..MaxConnects, call_id \in 1..MaxCalls : Connect(t, call_id)
    \/ \E t \in 1..MaxConnects : Greeting(t)
    \/ \E t \in 1..MaxConnects : GreetSend(t)
    \/ \E t \in 1..MaxConnects : GreetAudio(t)
    \/ \E t \in 1..MaxConnects : Receive(t)
    \/ \E t \in 1..MaxConnects : Transcribe(t)
    \/ \E t \in 1..MaxConnects : Acknowledge(t)
    \/ \E t \in 1..MaxConnects : Respond(t)
    \/ \E t \in 1..MaxConnects : AudioError(t)
    \/ \E t \in 1..MaxConnects : LoopError(t)
    \/ \E t \in 1..MaxConnects : EndSummary(t)
    \/ \E t \in 1..MaxConnects : UcsGet(t)
    \/ \E t \in 1..MaxConnects : UcsUpdate(t)
    \/ \E t \in 1..MaxConnects : UcsPending(t)
    \/ \E t \in 1..MaxConnects : UcsCount(t)
    \/ \E t \in 1..MaxConnects : EndCost(t)
    \/ \E t \in 1..MaxConnects : FoldCall(t)
    \/ \E t \in 1..MaxConnects : Finally(t)
    \/ \E t \in 1..MaxConnects : RemoteClose(t)

CallSpec == Init /\ [][CallNext]_vars

(***************************************************************************)
(* Properties of the call lifecycle and of the accounting.                 *)
(***************************************************************************)
Terminal(status) == status \in { COMPLETED, ERROR }

\* C11: once the stored status of a call is COMPLETED or ERROR, no step
\* changes the stored call: not its status, its end time, its messages, its
\* usage or its costs.
C11_TerminalImmutable ==
    [][\A id \in DOMAIN calls :
          Terminal(calls[id].status) => calls'[id] = calls[id]]_vars

\* a handler of the call has set websocket_disconnected
DisconnectDetected(id) ==
    \E t \in 1..MaxConnects :
        handler[t].call_id = id /\ handler[t].websocket_disconnected

\* C12: once a handler of a call has detected a disconnect, no step sets the
\* stored status of the call to ERROR.
C12_NoErrorAfterDisconnect ==
    [][\A id \in DOMAIN calls :
          DisconnectDetected(id) =>
              ~(calls'[id].status = ERROR /\ calls[id].status # ERROR)]_vars

\* the usage of the call was handed to update_stats
Folded(id) == \E i \in 1..Len(ledger.folds) : ledger.folds[i].id = id

\* C13: when a handler that detected the loss of its transport has returned,
\* the call is COMPLETED, its end time is stamped and its usage was folded into
\* the statistics; it is not left PENDING.
C13_DisconnectEndsCompleted ==
    \A t \in 1..MaxConnects :
        (handler[t].pc = "done" /\ handler[t].websocket_disconnected) =>
            /\ calls[handler[t].call_id].status = COMPLETED
            /\ calls[handler[t].call_id].end_time
            /\ Folded(handler[t].call_id)

\* the handler is in update_call_status for an exception it caught at the
\* outer level, no disconnect detected, and the call it read was PENDING
ClassifiesError(t) ==
    /\ handler[t].status = ERROR
    /\ handler[t].old_status = PENDING
    /\ ~handler[t].websocket_disconnected

C15_CompletedAfterFold ==
    \A id \in DOMAIN calls :
        calls[id].status = COMPLETED =>
            /\ calls[id].cost_stats.total_cost = CostSum(calls[id].cost_stats)
            /\ Folded(id)

\* the exact usage that comes with the items of an answer, if any: the
\* fourth component of the last item
ExactUsage(its) == its[Len(its)][4]

\* the tokens and the token costs of a call grew by these amounts
TokensGrew(before, after, input_tokens, output_tokens) ==
    /\ after.usage_stats.input_tokens = before.usage_stats.input_tokens + input_tokens
    /\ after.usage_stats.output_tokens = before.usage_stats.output_tokens + output_tokens
    /\ after.cost_stats.llm_input_cost =
           before.cost_stats.llm_input_cost
               + input_tokens * price_per_million_input_tokens
    /\ after.cost_stats.llm_output_cost =
           before.cost_stats.llm_output_cost
               + output_tokens * price_per_million_output_tokens

\* C16: every answered turn is accounted by one path: if process_message gave
\* exact prompt and completion token counts the tokens and the token costs of
\* the call grow by exactly those, otherwise by the estimate from the
\* characters, once.
C16_OneAccountingPath ==
    [][\A t \in 1..MaxConnects : \A its \in ProcessResults :
          RespondItems(t, its) =>
              LET before == calls[handler[t].call_id]
                  after == calls'[handler[t].call_id]
                  usage == ExactUsage(its)
                  response_text == ConsumeItems(its, EmptyText, None).response_text
              IN  IF ~IsNone(usage)
                  THEN TokensGrew(before, after, Get(usage).prompt_tokens,
                                  Get(usage).completion_tokens)
                  ELSE TokensGrew(before, after,
                           Len(handler[t].transcription) \div estimated_token_length,
                           Len(response_text) \div estimated_token_length)]_vars

\* C17: after every step that changes the costs of a stored call, or the
\* costs of the statistics, the stored total cost is the sum of the four
\* components.
C17_TotalIsSum ==
    [][/\ \A id \in DOMAIN calls :
             calls'[id].cost_stats # calls[id].cost_stats =>
                 calls'[id].cost_stats.total_cost = CostSum(calls'[id].cost_stats)
       /\ stats'.total_costs # stats.total_costs =>
             stats'.total_costs.total_cost = CostSum(stats'.total_costs)]_vars

\* how many times the usage of the call was handed to update_stats
FoldCount(id) == Cardinality({ i \in 1..Len(ledger.folds) : ledger.folds[i].id = id })

\* no run of the handler is at work on the call
AtRest(id) ==
    \A t \in 1..MaxConnects :
        handler[t].call_id = id => handler[t].pc \in { "none", "done" }

\* reconnecting to a call, or running the end path again, does not fold it
\* a second time
NeverFoldedTwice == \A id \in DOMAIN calls : FoldCount(id) <= 1

\* C18: the usage of a call is folded into the statistics at most once, only
\* once its stored status is COMPLETED or ERROR, and a call that was ended
\* with either status has been folded once when its handler has returned.
C18_FoldedOnce ==
    /\ NeverFoldedTwice
    /\ \A id \in DOMAIN calls :
          /\ Folded(id) => Terminal(calls[id].status)
          /\ (Terminal(calls[id].status) /\ AtRest(id)) => FoldCount(id) = 1

(***************************************************************************)
(* The folding of usage into the statistics, by itself: session aggregates *)
(* arrive and are handed to update_stats in any order, one by one or two   *)
(* of them accumulated into one aggregate first.                           *)
(***************************************************************************)
\* the usage a session may have accumulated
UsageDeltas ==
    { [ UsageStats EXCEPT !.tts_characters = 3 ],
      [ UsageStats EXCEPT !.input_characters = 8, !.transcription_seconds = 5,
                          !.tts_characters = 3 ],
      [ UsageStats EXCEPT !.input_tokens = 2, !.output_tokens = 1,
                          !.input_characters = 8, !.output_characters = 5,
                          !.transcription_seconds = 5, !.tts_characters = 8,
                          !.llm_calls = 1, !.llm_latency_ms = 9 ] }

\* a sequence without its i-th element
Without(s, i) == SubSeq(s, 1, i - 1) \o SubSeq(s, i + 1, Len(s))

\* the usage of a sequence of aggregates, added from first to last
RECURSIVE SumUsage(_)
SumUsage(s) ==
    IF s = << >> THEN UsageStats
    ELSE UsagePlus(SumUsage(SubSeq(s, 1, Len(s) - 1)), s[Len(s)])

\* what the end path hands to update_stats for a session with that usage
FoldOfUsage(usage) == FoldOf([ Call(0, MODEL_NAME) EXCEPT !.usage_stats = usage ])

\* a session ends with that usage: its aggregate waits to be folded
DeltaArrives(d) ==
    /\ Len(arrived) < MaxDeltas
    /\ arrived' = Append(arrived, d)
    /\ deltas' = Append(deltas, d)
    /\ UNCHANGED << session_vars, service_vars >>

\* update_stats with one of the waiting aggregates, whichever
FoldOne(i) ==
    /\ i \in 1..Len(deltas)
    /\ LET f == FoldOfUsage(deltas[i])
       IN  /\ stats' = FoldInto(stats, f)
           /\ ledger' = [ ledger EXCEPT !.folds = Append(@, f) ]
    /\ deltas' = Without(deltas, i)
    /\ UNCHANGED << calls, create_pc, active_connections, active_agents, handler,
                    transport, arrived, settings, session_vars >>

\* update_stats with two of the waiting aggregates accumulated into one, as
\* the handler accumulates the turns of a session before it folds them
FoldTwo(i, j) ==
    /\ i \in 1..Len(deltas) /\ j \in 1..Len(deltas) /\ i < j
    /\ LET f == FoldOfUsage(UsagePlus(deltas[i], deltas[j]))
       IN  /\ stats' = FoldInto(stats, f)
           /\ ledger' = [ ledger EXCEPT !.folds = Append(@, f) ]
    /\ deltas' = Without(Without(deltas, j), i)
    /\ UNCHANGED << calls, create_pc, active_connections, active_agents, handler,
                    transport, arrived, settings, session_vars >>

FoldNext ==
    \/ \E d \in UsageDeltas : DeltaArrives(d)
    \/ \E i \in 1..MaxDeltas : FoldOne(i)
    \/ \E i, j \in 1..MaxDeltas : FoldTwo(i, j)

FoldSpec == Init /\ [][FoldNext]_vars

SessionAggregates(call) ==
    { call,
      TtsAccounting(call, GREETING),
      UserAccounting(TtsAccounting(call, GREETING),
                     << "u", "u", "u", "u", " ", "u", "u", "u" >>, 5) }

\* the handler of a PENDING call that no other handler serves has accounted
\* its conversation and comes to its end: the end path, or an exception
\* caught at the outer level
SessionEnds(t, call_id, status) ==
    /\ handler[t].pc = "none"
    /\ ~Locked
    /\ call_id \in 1..Len(calls)
    /\ calls[call_id].status = PENDING
    /\ \A u \in 1..MaxConnects : handler[u].call_id # call_id
    /\ \E call \in SessionAggregates(calls[call_id]) :
          /\ calls' = UpdateCall(calls, call)
          /\ handler' = [ handler EXCEPT ![t] =
                [ Handler EXCEPT
                    !.pc = "ucs_get", !.call_id = call_id, !.call = Some(call),
                    !.status = status,
                    !.error_message = IF status = ERROR
                                      THEN Some(<< "s", "e", "n", "d" >>) ELSE None ] ]
    /\ transport' = [ transport EXCEPT ![t] = "open" ]
    /\ UNCHANGED << stats, create_pc, active_connections, active_agents, ledger,
                    settings, session_vars, fold_vars >>

StatsNext ==
    \/ CreateCall
    \/ CreateCallTotal
    \/ CreateCallPending
    \/ \E t \in 1..MaxConnects, call_id \in 1..MaxCalls,
          status \in { COMPLETED, ERROR } : SessionEnds(t, call_id, status)
    \/ \E t \in 1..MaxConnects : UcsGet(t)
    \/ \E t \in 1..MaxConnects : UcsUpdate(t)
    \/ \E t \in 1..MaxConnects : UcsPending(t)
    \/ \E t \in 1..MaxConnects : UcsCount(t)
    \/ \E t \in 1..MaxConnects : EndCost(t)
    \/ \E t \in 1..MaxConnects : FoldCall(t)
    \/ \E t \in 1..MaxConnects : Finally(t)

StatsSpec == Init /\ [][StatsNext]_vars

\* the costs of a sequence of aggregates, added from first to last
RECURSIVE SumCosts(_)
SumCosts(s) ==
    IF s = << >> THEN CostStats
    ELSE CostPlus(SumCosts(SubSeq(s, 1, Len(s) - 1)), s[Len(s)])

\* how many stored calls have that status
CallsWith(status) == Cardinality({ id \in DOMAIN calls : calls[id].status = status })

\* no create_call is running and no handler is at work
Quiescent ==
    /\ create_pc = "idle"
    /\ \A t \in 1..MaxConnects : handler[t].pc \in { "none", "done" }

\* C20: no update of the statistics is lost under interleaving: each counter
\* is the sum of the increments asked of it and the totals are the sum of the
\* aggregates handed to update_stats; when nothing is running the counters
\* are the numbers of the calls created and of the calls in each status, and
\* the totals are the usage and the costs of the calls that ended COMPLETED.
C20_NoLostUpdate ==
    /\ stats.total_calls = ledger.total_calls
    /\ stats.pending_calls = ledger.pending_calls
    /\ stats.completed_calls = ledger.completed_calls
    /\ stats.error_calls = ledger.error_calls
    /\ stats.total_usage = SumUsage([ i \in 1..Len(ledger.folds) |-> ledger.folds[i].usage ])
    /\ stats.total_costs = SumCosts([ i \in 1..Len(ledger.folds) |-> ledger.folds[i].cost ])
    /\ Quiescent =>
          /\ stats.total_calls = Len(calls)
          /\ stats.pending_calls = CallsWith(PENDING)
          /\ stats.completed_calls = CallsWith(COMPLETED)
          /\ stats.error_calls = CallsWith(ERROR)
          /\ stats.total_usage =
                 SumUsage([ id \in 1..Len(calls) |->
                     IF calls[id].status = COMPLETED
                     THEN calls[id].usage_stats ELSE UsageStats ])
          /\ stats.total_costs =
                 SumCosts([ id \in 1..Len(calls) |->
                     IF calls[id].status = COMPLETED
                     THEN calls[id].cost_stats ELSE CostStats ])

\* two sessions are ending at the same time, one as COMPLETED and about to
\* fold, one as an error inside update_call_status, and their updates so far
\* are all in the statistics
C20_Witness ==
    /\ \E t, u \in 1..MaxConnects :
          /\ t # u
          /\ handler[t].pc = "update_stats"
          /\ handler[t].status = COMPLETED
          /\ Get(handler[t].call).usage_stats # UsageStats
          /\ handler[u].pc = "ucs_count"
          /\ handler[u].status = ERROR
    /\ stats.total_calls = 2
    /\ stats.pending_calls = 0
    /\ stats.completed_calls = 1

(***************************************************************************)
(* Properties of the failure paths and of the tool path of                 *)
(* process_message.                                                        *)
(***************************************************************************)
\* the item of the outer except: the apology, no latency, no usage
ApologyItem == Yield(ERROR_RESPONSE, FALSE, FALSE, None)

\* C23: when the outer except of process_message has run, the apology is the
\* last turn of the transcript and the only item the invocation has yielded:
\* no text before it, no latency, no usage.
C23_ApologySole ==
    pc = "yield_error" =>
        /\ conversation_history[Len(conversation_history)] =
               ChatMessage(ASSISTANT, ERROR_RESPONSE, Len(conversation_history))
        /\ yielded = << ApologyItem >>

\* the invocation took the stream fallback
TookFallback == \E i \in DOMAIN llm_calls : llm_calls[i].kind = "astream_chat"

\* the primary achat of the invocation raised
PrimaryRaised ==
    \E i \in DOMAIN llm_calls :
        /\ llm_calls[i].kind = "achat"
        /\ i \notin FollowupCalls
        /\ llm_calls[i].outcome = "raised"

\* the end-of-turn item of the fallback path: total latency, no usage
FallbackMarker == Yield(EmptyText, FALSE, TRUE, None)

\* the first half of C24: after a primary achat that raised, the step that
\* follows the yield of the streamed text appends it as the assistant turn
\* and yields the end-of-turn item, and does not take the outer except
FallbackReachesMarker ==
    [][(PrimaryRaised /\ ResumeText) =>
           /\ pc' = "yield_end"
           /\ yielded'[Len(yielded')] = FallbackMarker
           /\ conversation_history'[Len(conversation_history')] =
                  ChatMessage(ASSISTANT, full_response, Len(conversation_history'))]_vars

\* the second half of C24: no usage on the end-of-turn item of an invocation
\* that took the stream fallback
FallbackWithoutUsage ==
    [][(TookFallback /\ pc' = "yield_end") =>
           yielded'[Len(yielded')].usage = None]_vars

\* C24: when the primary achat raised and the stream fallback has delivered
\* its text, the streamed text is appended as the assistant turn and the last
\* item is the end-of-turn item with the total latency and no usage; and
\* every invocation that took the stream fallback and reached its
\* end-of-turn item carries no usage there.
C24_FallbackEnds == FallbackReachesMarker /\ FallbackWithoutUsage

\* s is the beginning of t, unchanged
IsPrefix(s, t) == Len(s) <= Len(t) /\ SubSeq(t, 1, Len(s)) = s

\* C25: the list of tool records only grows at its end, and when the primary
\* achat returns tool calls with well-formed arguments, whatever tools of the
\* declared schema they name, the step appends one record to the list for
\* each of them, in their order.
C25_ToolsRecorded ==
    [][/\ IsPrefix(tool_calls, tool_calls')
       /\ (pc = "primary_call" /\ ~IsNone(response')) =>
              LET tcs == Get(response').tool_calls
              IN  (\A i \in DOMAIN tcs : ~IsNone(JsonLoads(tcs[i].arguments))) =>
                      /\ Len(tool_calls') = Len(tool_calls) + Len(tcs)
                      /\ \A i \in DOMAIN tcs :
                            tool_calls'[Len(tool_calls) + i].tool = tcs[i].name]_vars

\* a tool call whose arguments json.loads does not accept
FailingCalls(tcs) == { i \in DOMAIN tcs : IsNone(JsonLoads(tcs[i].arguments)) }

\* C26: when a tool call of the primary response fails, the list of tool
\* records gets a record for every call of the response, the failing one
\* included, and the turn goes on with the response it has: its text is kept
\* and no other path (stream fallback, apology) is taken because of the
\* failure.
C26_ToolFailureContained ==
    [][(pc = "primary_call" /\ ~IsNone(response')
          /\ FailingCalls(Get(response').tool_calls) # {}) =>
              /\ Len(tool_calls') = Len(tool_calls) + Len(Get(response').tool_calls)
              /\ pc' \notin { "stream_open", "yield_error" }
              /\ full_response' = Get(response').content]_vars

(***************************************************************************)
(* The end of an invocation.  Under LiveSpec the consumer takes every item *)
(* and every awaited call ends, so a step is taken whenever one can be.    *)
(***************************************************************************)
LiveSpec == Spec /\ WF_vars(Next)

\* the assistant turns of a transcript
AssistantTurns(h) == Cardinality({ i \in DOMAIN h : h[i].role = ASSISTANT })

\* the step that reaches the last yield of the invocation appends one
\* assistant turn, and no other step of an invocation appends or removes one
OneAssistantTurn ==
    [][IF pc # "idle" /\ ~Finished /\ Finished'
       THEN AssistantTurns(conversation_history') =
                AssistantTurns(conversation_history) + 1
       ELSE (pc # "idle" \/ pc' # "idle") =>
                AssistantTurns(conversation_history') =
                    AssistantTurns(conversation_history)]_vars

\* on the paths that do not fail the last item is the end-of-turn item, empty
\* text with the total latency and the usage, it is the only such item, and
\* the assistant turn with the text of the response is in the transcript
MarkerLast ==
    pc = "yield_end" =>
        /\ yielded[Len(yielded)] = Yield(EmptyText, FALSE, TRUE, usage_data)
        /\ \A i \in 1..(Len(yielded) - 1) :
              Truthy(yielded[i].text) /\ ~yielded[i].total_latency_ms
        /\ conversation_history[Len(conversation_history)] =
               ChatMessage(ASSISTANT, full_response, Len(conversation_history))

\* C29: an invocation that is consumed to the end terminates and appends
\* exactly one assistant turn; on the paths that do not fail its last item is
\* the one empty-text end-of-turn item with the total latency and the usage,
\* yielded after the assistant turn was appended, with no content after it.
C29_OneTurnThenMarker ==
    /\ OneAssistantTurn
    /\ []MarkerLast
    /\ (pc # "idle") ~> (pc = "idle")

\* an invocation that used a tool and asked again has yielded its text and
\* then the end-of-turn item with the usage of both calls
C29_Witness ==
    /\ pc = "yield_end"
    /\ FollowupCalls # {}
    /\ Len(yielded) = 2
    /\ Truthy(yielded[1].text)
    /\ ~IsNone(yielded[2].usage)
    /\ Get(yielded[2].usage).total_tokens = 2 * Usage.total_tokens

(***************************************************************************)
(* Properties of the order of the turns.                                   *)
(***************************************************************************)
\* every user message of the stored transcript is followed by the assistant
\* message that answers it
EveryUtteranceAnswered(messages) ==
    \A i \in DOMAIN messages :
        messages[i].role = USER =>
            i < Len(messages) /\ messages[i + 1].role = ASSISTANT

\* within an invocation the summarization call, if any, is the first call
\* and has ended before a response-generation call is started
CondensationFirst ==
    \A i \in DOMAIN llm_calls :
        /\ llm_calls[i].kind = "acomplete" => i = 1
        /\ (llm_calls[i].kind = "acomplete" /\ Len(llm_calls) > 1) =>
               llm_calls[i].outcome # "pending"

\* C28: when the handler reads the next inbound message, every utterance it
\* has taken before was answered and the answer is stored; and within a turn
\* the condensation of the memory has ended before the response-generation
\* call is started.
C28_OneTurnAtATime ==
    /\ \A t \in 1..MaxConnects :
          handler[t].pc = "receive" =>
              EveryUtteranceAnswered(calls[handler[t].call_id].messages)
    /\ CondensationFirst

\* C30: when the items of an answer of the language model are taken on an
\* open transport, the response is sent and the handler goes back to
\* receiving, with the utterance and the answer stored as the last two
\* messages of the call and the output characters, the call count and the
\* latency of the turn added to its usage.
C30_TurnAnswered ==
    [][\A t \in 1..MaxConnects : \A its \in ProcessResults :
          (RespondItems(t, its) /\ transport[t] = "open"
             /\ its[1][1] # ERROR_RESPONSE) =>
              LET before == calls[handler[t].call_id]
                  after == calls'[handler[t].call_id]
                  r == ConsumeItems(its, EmptyText, None)
                  n == Len(after.messages)
              IN  /\ handler'[t].pc = "receive"
                  /\ n = Len(before.messages) + 1
                  /\ n >= 2
                  /\ after.messages[n - 1] = Message(USER, handler[t].transcription)
                  /\ after.messages[n] = Message(ASSISTANT, r.response_text)
                  /\ after.usage_stats.output_characters =
                         before.usage_stats.output_characters + Len(r.response_text)
                  /\ after.usage_stats.llm_calls = before.usage_stats.llm_calls + 1
                  /\ after.usage_stats.llm_latency_ms =
                         before.usage_stats.llm_latency_ms + Get(r.total_latency_ms)]_vars

\* C27: when both calls of the language model at the end of the conversation
\* fail, the stored summary and title stay as they were (no summary, the title
\* "New Call" for a call that ends for the first time) and the handler goes
\* on to store COMPLETED.
C27_SummaryBestEffort ==
    [][\A t \in 1..MaxConnects :
          EndSummaryWith(t, FALSE, FALSE) =>
              /\ calls'[handler[t].call_id].summary = calls[handler[t].call_id].summary
              /\ calls'[handler[t].call_id].title = calls[handler[t].call_id].title
              /\ handler'[t].pc = "ucs_get"
              /\ handler'[t].status = COMPLETED]_vars

(***************************************************************************)
(* The read-modify-write methods of the database (models/database.py), run *)
(* by concurrent tasks.  get_call, update_call, get_settings and           *)
(* update_settings each take the lock for themselves; the method that      *)
(* calls two of them awaits in between, and another task may run there.    *)
(***************************************************************************)
\* the messages a task may add
StoreMessages == { Message("user", << "a" >>), Message("assistant", << "b" >>) }

\* the ids of the entries a task may add (uuid4: fresh, one per task) and
\* of the entries it may ask to remove ("i9" is no entry)
NewInfoId(t) == << "i4", "i5" >>[t]

RemovableInfoIds == { "i1", "i9" }

\* [info for info in settings.information_to_gather if info.id != info_id]
RECURSIVE WithoutInfo(_, _)
WithoutInfo(infos, info_id) ==
    IF infos = << >> THEN << >>
    ELSE IF Head(infos) = info_id THEN WithoutInfo(Tail(infos), info_id)
    ELSE << Head(infos) >> \o WithoutInfo(Tail(infos), info_id)

\* add_message_to_call: call = await self.get_call(call_id);
\* call.messages.append(message)
AddMessageGet(t, call_id, message) ==
    /\ handler[t].pc = "none"
    /\ ~Locked
    /\ call_id \in 1..Len(calls)
    /\ handler' = [ handler EXCEPT ![t] =
          [ @ EXCEPT !.pc = "amc_update", !.call_id = call_id,
                     !.amc_call = Some([ calls[call_id] EXCEPT
                                           !.messages = Append(@, message) ]) ] ]
    /\ UNCHANGED << calls, stats, create_pc, active_connections, active_agents,
                    transport, ledger, settings, session_vars, fold_vars >>

\* add_message_to_call: await self.update_call(call); the method returns
AddMessageUpdate(t) ==
    /\ handler[t].pc = "amc_update"
    /\ ~Locked
    /\ LET call == Get(handler[t].amc_call)
       IN  /\ calls' = UpdateCall(calls, call)
           /\ ledger' = [ ledger EXCEPT !.requests =
                 @ \cup { << "message", t, call.id,
                             call.messages[Len(call.messages)] >> } ]
    /\ handler' = [ handler EXCEPT ![t] =
          [ @ EXCEPT !.pc = "done", !.amc_call = None ] ]
    /\ UNCHANGED << stats, create_pc, active_connections, active_agents,
                    transport, settings, session_vars, fold_vars >>

\* update_call_status(call_id, CallStatus.ERROR, str(e)) is entered
UpdateCallStatus(t, call_id) ==
    /\ handler[t].pc = "none"
    /\ call_id \in 1..Len(calls)
    /\ handler' = [ handler EXCEPT ![t] =
          [ @ EXCEPT !.pc = "ucs_get", !.call_id = call_id, !.status = ERROR,
                     !.error_message = Some(<< "s", "e", "n", "d" >>) ] ]
    /\ UNCHANGED << calls, stats, create_pc, active_connections, active_agents,
                    transport, ledger, settings, session_vars, fold_vars >>

\* add_information_to_gather: settings = await self.get_settings();
\* settings.information_to_gather.append(info)
AddInformationGet(t) ==
    /\ handler[t].pc = "none"
    /\ ~Locked
    /\ handler' = [ handler EXCEPT ![t] =
          [ @ EXCEPT !.pc = "add_update",
                     !.settings = Some([ settings EXCEPT !.information_to_gather =
                                           Append(@, NewInfoId(t)) ]) ] ]
    /\ UNCHANGED << calls, stats, create_pc, active_connections, active_agents,
                    transport, ledger, settings, session_vars, fold_vars >>

\* add_information_to_gather: await self.update_settings(settings)
AddInformationUpdate(t) ==
    /\ handler[t].pc = "add_update"
    /\ ~Locked
    /\ settings' = Get(handler[t].settings)
    /\ ledger' = [ ledger EXCEPT !.requests =
                     @ \cup { << "add", t, 0, NewInfoId(t) >> } ]
    /\ handler' = [ handler EXCEPT ![t] =
          [ @ EXCEPT !.pc = "done", !.settings = None ] ]
    /\ UNCHANGED << calls, stats, create_pc, active_connections, active_agents,
                    transport, session_vars, fold_vars >>

\* remove_information_to_gather: settings = await self.get_settings(); the
\* entry is filtered out; nothing is written when no entry had that id
RemoveInformationGet(t, info_id) ==
    /\ handler[t].pc = "none"
    /\ ~Locked
    /\ LET infos == WithoutInfo(settings.information_to_gather, info_id)
       IN  handler' = [ handler EXCEPT ![t] =
             IF Len(infos) < Len(settings.information_to_gather)
             THEN [ @ EXCEPT !.pc = "remove_update",
                             !.info_id = Some(info_id),
                             !.settings = Some([ settings EXCEPT
                                                   !.information_to_gather = infos ]) ]
             ELSE [ @ EXCEPT !.pc = "done" ] ]
    /\ UNCHANGED << calls, stats, create_pc, active_connections, active_agents,
                    transport, ledger, settings, session_vars, fold_vars >>

\* remove_information_to_gather: await self.update_settings(settings)
RemoveInformationUpdate(t) ==
    /\ handler[t].pc = "remove_update"
    /\ ~Locked
    /\ settings' = Get(handler[t].settings)
    /\ ledger' = [ ledger EXCEPT !.requests =
                     @ \cup { << "remove", t, 0, Get(handler[t].info_id) >> } ]
    /\ handler' = [ handler EXCEPT ![t] =
          [ @ EXCEPT !.pc = "done", !.settings = None, !.info_id = None ] ]
    /\ UNCHANGED << calls, stats, create_pc, active_connections, active_agents,
                    transport, session_vars, fold_vars >>

StoreNext ==
    \/ CreateCall
    \/ CreateCallTotal
    \/ CreateCallPending
    \/ \E t \in 1..MaxConnects, call_id \in 1..MaxCalls, message \in StoreMessages :
          AddMessageGet(t, call_id, message)
    \/ \E t \in 1..MaxConnects : AddMessageUpdate(t)
    \/ \E t \in 1..MaxConnects, call_id \in 1..MaxCalls : UpdateCallStatus(t, call_id)
    \/ \E t \in 1..MaxConnects : UcsGet(t)
    \/ \E t \in 1..MaxConnects : UcsUpdate(t)
    \/ \E t \in 1..MaxConnects : UcsPending(t)
    \/ \E t \in 1..MaxConnects : UcsCount(t)
    \/ \E t \in 1..MaxConnects : Finally(t)
    \/ \E t \in 1..MaxConnects : AddInformationGet(t)
    \/ \E t \in 1..MaxConnects : AddInformationUpdate(t)
    \/ \E t \in 1..MaxConnects, info_id \in RemovableInfoIds :
          RemoveInformationGet(t, info_id)
    \/ \E t \in 1..MaxConnects : RemoveInformationUpdate(t)

StoreSpec == Init /\ [][StoreNext]_vars

\* how many times x occurs in the sequence s
Occurrences(s, x) == Cardinality({ i \in DOMAIN s : s[i] = x })

\* the change of a request that returned is in the store
Present(r) ==
    CASE r[1] = "message" ->
           Occurrences(calls[r[3]].messages, r[4]) >=
               Cardinality({ q \in ledger.requests :
                               q[1] = "message" /\ q[3] = r[3] /\ q[4] = r[4] })
      [] r[1] = "add" -> \E i \in DOMAIN settings.information_to_gather :
                            settings.information_to_gather[i] = r[4]
      [] r[1] = "remove" -> \A i \in DOMAIN settings.information_to_gather :
                               settings.information_to_gather[i] # r[4]

\* the statuses in the store are those the update_call_status calls that
\* have written have set
StatusPresent ==
    \A t \in 1..MaxConnects :
        handler[t].pc \in { "ucs_pending", "ucs_count", "finally" }
            => calls[handler[t].call_id].status = handler[t].status

ConnectOther(t, call_id) ==
    /\ \A u \in 1..MaxConnects :
          handler[u].pc \notin { "none", "done" } => handler[u].call_id # call_id
    /\ Open(t, call_id)

SessionsNext ==
    \/ CreateCall
    \/ CreateCallTotal
    \/ CreateCallPending
    \/ \E t \in 1..MaxConnects, call_id \in 1..MaxCalls : ConnectOther(t, call_id)
    \/ \E t \in 1..MaxConnects : Greeting(t)
    \/ \E t \in 1..MaxConnects : GreetSend(t)
    \/ \E t \in 1..MaxConnects : GreetAudio(t)
    \/ \E t \in 1..MaxConnects : Receive(t)
    \/ \E t \in 1..MaxConnects : Transcribe(t)
    \/ \E t \in 1..MaxConnects : Acknowledge(t)
    \/ \E t \in 1..MaxConnects : Respond(t)
    \/ \E t \in 1..MaxConnects : AudioError(t)
    \/ \E t \in 1..MaxConnects : LoopError(t)
    \/ \E t \in 1..MaxConnects : EndSummary(t)
    \/ \E t \in 1..MaxConnects : UcsGet(t)
    \/ \E t \in 1..MaxConnects : UcsUpdate(t)
    \/ \E t \in 1..MaxConnects : UcsPending(t)
    \/ \E t \in 1..MaxConnects : UcsCount(t)
    \/ \E t \in 1..MaxConnects : EndCost(t)
    \/ \E t \in 1..MaxConnects : FoldCall(t)
    \/ \E t \in 1..MaxConnects : Finally(t)
    \/ \E t \in 1..MaxConnects : RemoteClose(t)

SessionsSpec == Init /\ [][SessionsNext]_vars

\* the step is one of the session that handler t runs
StepOf(t) == handler'[t] # handler[t]

\* a step of a session leaves the other handlers' locals, the stored calls of
\* other ids and the connections and agents registered under other ids alone
OwnCallOnly(t) ==
    LET call_id == handler'[t].call_id
    IN  /\ \A u \in 1..MaxConnects \ { t } :
              handler'[u] = handler[u] /\ transport'[u] = transport[u]
        /\ \A id \in DOMAIN calls \ { call_id } : calls'[id] = calls[id]
        /\ active_agents' \ { call_id } = active_agents \ { call_id }
        /\ active_connections' \ { call_id } = active_connections \ { call_id }

\* a call that no websocket was opened on is as create_call stored it
Untouched ==
    \A id \in DOMAIN calls :
        (\A t \in 1..MaxConnects : handler[t].call_id # id)
            => calls[id] = Call(id, MODEL_NAME)

Reconnect(t, call_id) ==
    /\ \A u \in 1..MaxConnects :
          handler[u].pc \notin { "none", "done" } => handler[u].call_id = call_id
    /\ Open(t, call_id)

ReconnectNext ==
    \/ CreateCall
    \/ CreateCallTotal
    \/ CreateCallPending
    \/ \E t \in 1..MaxConnects, call_id \in 1..MaxCalls : Reconnect(t, call_id)
    \/ \E t \in 1..MaxConnects : Greeting(t)
    \/ \E t \in 1..MaxConnects : GreetSend(t)
    \/ \E t \in 1..MaxConnects : GreetAudio(t)
    \/ \E t \in 1..MaxConnects : Receive(t)
    \/ \E t \in 1..MaxConnects : LoopError(t)
    \/ \E t \in 1..MaxConnects : EndSummary(t)
    \/ \E t \in 1..MaxConnects : UcsGet(t)
    \/ \E t \in 1..MaxConnects : UcsUpdate(t)
    \/ \E t \in 1..MaxConnects : UcsPending(t)
    \/ \E t \in 1..MaxConnects : UcsCount(t)
    \/ \E t \in 1..MaxConnects : EndCost(t)
    \/ \E t \in 1..MaxConnects : FoldCall(t)
    \/ \E t \in 1..MaxConnects : Finally(t)

ReconnectSpec == Init /\ [][ReconnectNext]_vars

\* C31: a call is created PENDING, and whenever nothing is running the
\* pending counter is the number of stored calls whose status is PENDING:
\* creation added one and the call's leaving PENDING took one away, once
C31_PendingCounted ==
    /\ \A id \in DOMAIN calls :
          (\A t \in 1..MaxConnects : handler[t].call_id # id) => calls[id].status = PENDING
    /\ Quiescent => stats.pending_calls = CallsWith(PENDING)

\* stats.model_latencies[model_name], or the fresh entry when there is none
LatencyOf(st, model_name) ==
    IF model_name \in Keys(st.model_latencies)
    THEN (CHOOSE kv \in st.model_latencies : kv[1] = model_name)[2]
    ELSE ModelLatencyStats(model_name)

\* the fold f has gone into the latency statistics of its model
LatencyFolded(old, new, f) ==
    /\ new.total_calls = old.total_calls + 1
    /\ new.total_tokens = old.total_tokens + f.call_tokens
    /\ new.total_latency_ms = old.total_latency_ms + f.call_latency_ms
    /\ new.avg_latency_per_100_tokens =
          IF new.total_tokens = 0 THEN old.avg_latency_per_100_tokens
          ELSE AvgLatencyPer100Tokens(new.total_latency_ms, new.total_tokens)

\* C32: every fold of a session that names a model updates the latency
\* statistics of that model: one more call, the tokens and the latency of the
\* session added, and the average set to latency / tokens * 100 unless the
\* total of the tokens is 0; a session with no tokens or no latency counts too
C32_LatencyFolded ==
    [][Len(ledger'.folds) = Len(ledger.folds) + 1 =>
          LET f == ledger'.folds[Len(ledger'.folds)]
          IN  f.model_name # "" =>
                 LatencyFolded(LatencyOf(stats, f.model_name),
                               LatencyOf(stats', f.model_name), f)]_vars

\* the usage of a turn with a follow-up, from what the two calls reported
TurnUsage(primary_usage, followup_usage) ==
    IF ~IsNone(primary_usage) /\ ~IsNone(followup_usage)
    THEN Some([ f \in { "prompt_tokens", "completion_tokens", "total_tokens" } |->
                  Get(primary_usage)[f] + Get(followup_usage)[f] ])
    ELSE IF ~IsNone(primary_usage) THEN primary_usage
    ELSE followup_usage

\* C33: when the follow-up call returns, the usage of the turn is the sum,
\* field by field, of what the primary call and the follow-up call reported,
\* or what the one of them that reported usage reported; and that usage is
\* the one the end-of-turn item carries
C33_UsageSummed ==
    /\ [][\A r \in FollowupResponses :
             FollowupReturnWith(r) =>
                 usage_data' = TurnUsage(Get(response).usage, r.usage)]_vars
    /\ [](pc = "yield_end" => yielded[Len(yielded)].usage = usage_data)

\* a turn with a follow-up, both calls having reported usage, has yielded its
\* end-of-turn item with the sums
C33_Witness ==
    /\ pc = "yield_end"
    /\ Len(llm_calls) >= 2
    /\ llm_calls[Len(llm_calls)].kind = "achat"
    /\ llm_calls[Len(llm_calls) - 1].kind = "achat"
    /\ ~IsNone(response) /\ ~IsNone(Get(response).usage)
    /\ yielded[Len(yielded)].usage =
          Some([ prompt_tokens |-> 2 * Usage.prompt_tokens,
                 completion_tokens |-> 2 * Usage.completion_tokens,
                 total_tokens |-> 2 * Usage.total_tokens ])

\* the handler is handling an audio message or an exception raised by it
InTurn(t) ==
    handler[t].pc \in { "transcribe", "acknowledge", "respond", "audio_error",
                        "loop_error" }

C35_MessagesAppendOnly ==
    [][\A id \in DOMAIN calls :
          IsPrefix(calls[id].messages, calls'[id].messages)]_vars

\* C36: whenever nothing is running, the counters of the statistics are not
\* negative and total_calls is the sum of pending_calls, completed_calls and
\* error_calls, also after a second websocket on a call that has ended or is
\* being served
C36_CountersAddUp ==
    Quiescent =>
        /\ stats.total_calls >= 0 /\ stats.pending_calls >= 0
        /\ stats.completed_calls >= 0 /\ stats.error_calls >= 0
        /\ stats.total_calls =
               stats.pending_calls + stats.completed_calls + stats.error_calls

\* the texts of the items yielded so far, one after the other
RECURSIVE YieldedText(_)
YieldedText(y) ==
    IF y = << >> THEN EmptyText ELSE YieldedText(SubSeq(y, 1, Len(y) - 1)) \o y[Len(y)].text

\* C37: when an invocation has appended its assistant turn and yields its
\* last item, the texts it has yielded, put together, are the content of that
\* turn: nothing was yielded twice and nothing yielded is missing
C37_YieldedIsTurn ==
    pc = "yield_end" =>
        /\ conversation_history[Len(conversation_history)].role = ASSISTANT
        /\ YieldedText(yielded) = conversation_history[Len(conversation_history)].content

\* the turn at position p of the transcript is in the rolling summary: it is
\* below the summary point and there is a summary
Summarized(p, lsp, cs) == p - 1 <= lsp /\ HasSummary(cs)

\* the turn is among the messages, as it is
Verbatim(turn, messages) == \E i \in DOMAIN messages : messages[i] = turn

\* C38: at every generation call each turn of the transcript that is not a
\* system turn is covered by the rolling summary or is given verbatim in the
\* condensed context: no turn is out of the model's view without having been
\* summarized
C38_NothingDropped ==
    [][(/\ Len(llm_calls') = Len(llm_calls) + 1
        /\ llm_calls'[Len(llm_calls')].kind \in { "achat", "astream_chat" }) =>
          \A p \in 2..Len(conversation_history') :
              conversation_history'[p].role # SYSTEM =>
                  \/ Summarized(p, last_summary_point', conversation_summary')
                  \/ Verbatim(conversation_history'[p],
                              llm_calls'[Len(llm_calls')].messages)]_vars

\* the handler t is running
Running(t) == handler[t].pc \notin { "none", "done" }

\* C39: when a handler returns, by whatever path, no connection and no agent
\* is registered under its call id; and the connection and the agent
\* registered under the call id of another handler that is still running are
\* still registered
C39_RegistryCleared ==
    [][\A t \in 1..MaxConnects :
          (handler[t].pc # "done" /\ handler'[t].pc = "done") =>
              /\ handler'[t].call_id \notin active_connections'
              /\ handler'[t].call_id \notin active_agents'
              /\ \A u \in 1..MaxConnects \ { t } :
                    Running(u) =>
                        /\ handler[u].call_id \in active_connections
                              => handler[u].call_id \in active_connections'
                        /\ handler[u].call_id \in active_agents
                              => handler[u].call_id \in active_agents']_vars

(***************************************************************************)
(* C40: in every reachable state the summary point lies between 0 and the  *)
(* number of turns after the system prompt, and, keep_recent_messages      *)
(* being below summary_threshold, when _update_memory has returned the     *)
(* number of non-summarized turns is below summary_threshold.              *)
(***************************************************************************)
C40_BoundaryInRange ==
    /\ 0 <= last_summary_point
    /\ last_summary_point <= Len(conversation_history) - 1
    /\ keep_recent_messages < summary_threshold
    /\ pc = "primary_call" =>
           NonSummarizedCount(conversation_history, last_summary_point)
               < summary_threshold

\* _update_memory has summarized in this invocation and returned, leaving
\* exactly the kept-back turns after a summary point that has advanced
C40_Witness ==
    /\ pc = "primary_call"
    /\ SummarizedNow
    /\ last_summary_point >= summary_threshold - keep_recent_messages
    /\ NonSummarizedCount(conversation_history, last_summary_point)
           = keep_recent_messages

====
